---- MODULE Spec2Model ----
(***************************************************************************)
(* A model of the glif_psc point neuron of NEST (glif_psc.cpp): its        *)
(* parameter dictionary interface (Parameters_::get/set, State_::get/set,  *)
(* set_status), connection set-up (handles_test_event), calibrate, the     *)
(* update kernel and the event handlers.                                   *)
(*                                                                         *)
(* Numbers.  The code computes in double.  The model computes in decimal   *)
(* fixed point on two grids.  A quantity x (mV, pA, ms, 1/ms: parameters,  *)
(* potentials, currents, times) is the integer x * SCALE.  A factor f (a   *)
(* propagator of V_, an exponential, a ratio of two parameters) is the     *)
(* integer f * FINE: a factor multiplies currents of thousands of pA, and  *)
(* three decimals of it would cost millivolts.  Sums and differences are   *)
(* exact; the product of two quantities is exact on the fine grid; Scaled  *)
(* and Ratio round to nearest, FMul and FDiv towards zero; exp is the      *)
(* fixed-point ExpNeg.  Rounding in the last bit of a double is not        *)
(* represented.                                                            *)
(***************************************************************************)
EXTENDS Integers, Sequences, FiniteSets, TLC

VARIABLES
  P,        \* Parameters_ P_
  S,        \* State_ S_
  V,        \* Variables_ V_
  B,        \* Buffers_ B_ (spikes_, currents_)
  K,        \* what the kernel holds for this node: resolution, slice origin, ...
  call,     \* the last call made on the node and what it returned or threw
  log       \* one record per step executed by update, oldest first

vars == <<P, S, V, B, K, call, log>>

----------------------------------------------------------------------------
(* Fixed point *)

SCALE == 1000

Abs(x) == IF x < 0 THEN -x ELSE x

Sgn(x) == IF x < 0 THEN -1 ELSE 1

\* the grid of the factors
FINE == SCALE * SCALE

\* a * b / c rounded towards zero, for a, b >= 0 and c > 0, with no
\* intermediate product larger than b * c
MulDiv(a, b, c) == (a \div c) * b + ((a % c) * b) \div c

\* a * b / SCALE: the product of two quantities, as a quantity; of a factor
\* and a quantity, as a factor
FMul(a, b) == Sgn(a) * Sgn(b) * MulDiv(Abs(a), Abs(b), SCALE)

\* a * SCALE / b, b /= 0: the quotient of two quantities, as a quantity; of
\* a factor by a quantity, as a factor
FDiv(a, b) == Sgn(a) * Sgn(b) * MulDiv(Abs(a), SCALE, Abs(b))

\* a * f / FINE to the nearest integer: the product of a quantity and a
\* factor, as a quantity; of two factors, as a factor.  The operands are
\* split at SCALE so that no intermediate product leaves 32 bits
Scaled(a, f) ==
  CHOOSE r \in
    { Sgn(x) * Sgn(y)
        * ((Abs(x) \div SCALE) * (Abs(y) \div SCALE)
             + ((Abs(x) \div SCALE) * (Abs(y) % SCALE)
                  + (Abs(x) % SCALE) * (Abs(y) \div SCALE)
                  + ((Abs(x) % SCALE) * (Abs(y) % SCALE) + FINE \div 2)
                      \div SCALE) \div SCALE) : x \in {a}, y \in {f} } : TRUE

\* a * FINE / b to the nearest integer, b /= 0: the quotient of two
\* quantities, or of two factors, as a factor; by long division, three
\* decimals at a time
Ratio(a, b) ==
  CHOOSE r \in
    { LET q1 == Abs(x) \div Abs(y)
          r1 == Abs(x) % Abs(y)
          q2 == (r1 * SCALE) \div Abs(y)
          r2 == (r1 * SCALE) % Abs(y)
          q3 == (r2 * SCALE + Abs(y) \div 2) \div Abs(y)
      IN Sgn(x) * Sgn(y) * (q1 * FINE + q2 * SCALE + q3)
      : x \in {a}, y \in {b} } : TRUE

\* std::exp( -x ) as a factor, for a factor x >= 0: the argument is halved
\* down to 1/8 at most, then the series to the fifth power
RECURSIVE ExpNeg(_)
ExpNeg(x) ==
  IF x > 20 * FINE THEN 0
  ELSE IF 8 * x > FINE
  THEN Scaled(ExpNeg(x \div 2), ExpNeg(x - x \div 2))
  ELSE CHOOSE r \in
         { FINE - x + t2 - Scaled(t2, x) \div 3
             + Scaled(Scaled(t2, x) \div 3, x) \div 4
             - Scaled(Scaled(Scaled(t2, x) \div 3, x) \div 4, x) \div 5
           : t2 \in {Scaled(x, x) \div 2} } : TRUE

\* numerics::e, as a factor
e_ == 2718282

----------------------------------------------------------------------------
(* Parameters_ and State_ : constructors *)

\* the model_type lookup table of glif_psc.h, keyed by the lower-cased tag
model_type_lu ==
  [lif |-> 1, lif_r |-> 2, lif_asc |-> 3, lif_r_asc |-> 4, lif_r_asc_a |-> 5]

\* ::tolower applied to the tags the model draws
ToLower(s) ==
  CASE s = "LIF_R" -> "lif_r"
    [] s = "Lif_Asc" -> "lif_asc"
    [] OTHER -> s

Parameters_ ==
  [ E_L_ |-> -78850,
    G_ |-> 9430,
    th_inf_ |-> 27170,
    C_m_ |-> 58720,
    t_ref_ |-> 3750,
    V_reset_ |-> 0,
    a_spike_ |-> 370,
    b_spike_ |-> 9,
    voltage_reset_a_ |-> 200,
    voltage_reset_b_ |-> 18510,
    a_voltage_ |-> 5,
    b_voltage_ |-> 90,
    asc_init_ |-> <<0, 0>>,
    k_ |-> <<3, 100>>,
    asc_amps_ |-> <<-9180, -198940>>,
    r_ |-> <<1000, 1000>>,
    tau_syn_ |-> <<2000>>,
    has_connections_ |-> FALSE,
    glif_model_ |-> "lif" ]

\* Parameters_::n_receptors_() of glif_psc.h
n_receptors_(p) == Len(p.tau_syn_)

\* doubles off the grid: what a division by zero leaves in spike_offset
PosInf == 2 ^ 30

NegInf == -PosInf

NaN == PosInf + 1

\* a double member that no constructor writes holds what the memory held:
\* any double at all (0 in fresh pages, 32.5 under a fill of 0x40, the P33_
\* of a freed node, not a number under 0xFF), each member its own.  No line
\* reads such a member, other than to copy it, before update (lines 466,
\* 482) or calibrate (lines 325-328, 346-347) has written it, so the model
\* keeps one value off the grid that stands for every double the member can
\* hold, and draws the members one by one from the set of it
Indeterminate == {PosInf + 2}

\* what the memory of a new node holds where the constructors write nothing:
\* under ASCurrents_sum_ and I_syn_ the two members State_::State_ leaves
\* out of its initialiser list, under the other names the six doubles of
\* Variables_, which has no constructor
Unset ==
  [ ASCurrents_sum_ : Indeterminate, I_syn_ : Indeterminate,
    t_ref_remaining_ : Indeterminate, t_ref_total_ : Indeterminate,
    last_spike_ : Indeterminate, last_voltage_ : Indeterminate,
    P30_ : Indeterminate, P33_ : Indeterminate ]

\* State_::State_( p ) in memory that holds mem: ASCurrents_sum_ and I_syn_
\* keep what was there, until update writes them at lines 466 and 482
State_(p, mem) ==
  [ U_ |-> 0,
    ASCurrents_ |-> [a \in 1..2 |-> p.asc_init_[a]],
    ASCurrents_sum_ |-> mem.ASCurrents_sum_,
    threshold_ |-> -51680 - p.E_L_,
    I_ |-> 0,
    I_syn_ |-> mem.I_syn_,
    y1_ |-> <<>>,
    y2_ |-> <<>> ]

----------------------------------------------------------------------------
(* Dictionaries.  A DictionaryDatum is the set of the keys it holds and a  *)
(* value for every key name (a filler under the keys it does not hold).    *)

ScalarKeys ==
  {"E_L", "V_reset", "V_th", "g", "C_m", "t_ref", "a_spike", "b_spike",
   "a_reset", "b_reset", "a_voltage", "b_voltage", "V_m"}

VectorKeys == {"asc_init", "k", "asc_amps", "r", "tau_syn", "ASCurrents"}

SetKeys == ScalarKeys \cup VectorKeys \cup {"glif_model"}

\* a value: a double (n), a vector of doubles (v) or a string (s)
Filler == [n |-> 0, v |-> <<>>, s |-> ""]

Num(x) == [n |-> x, v |-> <<>>, s |-> ""]

Vec(x) == [n |-> 0, v |-> x, s |-> ""]

Str(x) == [n |-> 0, v |-> <<>>, s |-> x]

EmptyDict == [keys |-> {}, val |-> [key \in SetKeys |-> Filler]]

\* the dictionary that holds one more entry
Def(d, key, x) ==
  [keys |-> d.keys \cup {key}, val |-> [d.val EXCEPT ![key] = x]]

\* updateValue< T >( d, name, ref ): the value under name when d holds it
Known(d, key) == key \in d.keys

updateNum(d, key, old) == IF Known(d, key) THEN d.val[key].n ELSE old

updateVec(d, key, old) == IF Known(d, key) THEN d.val[key].v ELSE old

updateStr(d, key, old) == IF Known(d, key) THEN d.val[key].s ELSE old

----------------------------------------------------------------------------
(* Parameters_::get, State_::get, get_status *)

Parameters_get(p) ==
  [ V_th |-> Num(p.th_inf_ + p.E_L_),
    g |-> Num(p.G_),
    E_L |-> Num(p.E_L_),
    C_m |-> Num(p.C_m_),
    t_ref |-> Num(p.t_ref_),
    V_reset |-> Num(p.V_reset_ + p.E_L_),
    a_spike |-> Num(p.a_spike_),
    b_spike |-> Num(p.b_spike_),
    a_reset |-> Num(p.voltage_reset_a_),
    b_reset |-> Num(p.voltage_reset_b_),
    a_voltage |-> Num(p.a_voltage_),
    b_voltage |-> Num(p.b_voltage_),
    asc_init |-> Vec(p.asc_init_),
    k |-> Vec(p.k_),
    asc_amps |-> Vec(p.asc_amps_),
    r |-> Vec(p.r_),
    tau_syn |-> Vec(p.tau_syn_),
    has_connections |-> p.has_connections_,
    glif_model |-> Str(p.glif_model_) ]

State_get(s, p) ==
  [ V_m |-> Num(s.U_ + p.E_L_),
    ASCurrents |-> Vec(s.ASCurrents_) ]

\* Archiving_Node::get_status( d ), whose code is not part of this source:
\* the entries of the base class, kept as one entry that stands for them
\* all.  No dictionary drawn here holds a key of the base class
Archiving_Node_get_status == [Archiving_Node |-> "entries of the base class"]

\* get_status: P_.get( d ); S_.get( d, P_ ); Archiving_Node::get_status( d );
\* then recordables, the list of the names RecordablesMap< glif_psc >::create()
\* inserted (lines 54-61).  get_list() walks a map keyed by Name, whose order
\* the source here does not fix; the list is written in the order of the
\* insertions, and nothing below reads the order
get_status(p, s) ==
  Parameters_get(p) @@ State_get(s, p) @@ Archiving_Node_get_status
    @@ [recordables |-> <<"V_m", "AScurrents_sum", "I_syn">>]

----------------------------------------------------------------------------
(* Parameters_::set *)

\* a potential stored relative to E_L_: the entry of d less the new E_L_ when
\* d holds one, and the stored value less delta_EL when it does not
Relative_unshifted(d, key, old, E_L, delta_EL) ==
  IF Known(d, key) THEN d.val[key].n - E_L ELSE old

Relative(d, key, old, E_L, delta_EL) ==
  IF Known(d, key) THEN d.val[key].n - E_L ELSE old - delta_EL

\* the assignments of lines 142-181; they all precede the first check
Parameters_assign(p, d) ==
  LET ELold == p.E_L_
      E_L == updateNum(d, "E_L", p.E_L_)
      delta_EL == E_L - ELold
  IN [ E_L_ |-> E_L,
       V_reset_ |-> Relative(d, "V_reset", p.V_reset_, E_L, delta_EL),
       th_inf_ |-> Relative(d, "V_th", p.th_inf_, E_L, delta_EL),
       G_ |-> updateNum(d, "g", p.G_),
       C_m_ |-> updateNum(d, "C_m", p.C_m_),
       t_ref_ |-> updateNum(d, "t_ref", p.t_ref_),
       a_spike_ |-> updateNum(d, "a_spike", p.a_spike_),
       b_spike_ |-> updateNum(d, "b_spike", p.b_spike_),
       voltage_reset_a_ |-> updateNum(d, "a_reset", p.voltage_reset_a_),
       voltage_reset_b_ |-> updateNum(d, "b_reset", p.voltage_reset_b_),
       a_voltage_ |-> updateNum(d, "a_voltage", p.a_voltage_),
       b_voltage_ |-> updateNum(d, "b_voltage", p.b_voltage_),
       asc_init_ |-> updateVec(d, "asc_init", p.asc_init_),
       k_ |-> updateVec(d, "k", p.k_),
       asc_amps_ |-> updateVec(d, "asc_amps", p.asc_amps_),
       r_ |-> updateVec(d, "r", p.r_),
       tau_syn_ |-> updateVec(d, "tau_syn", p.tau_syn_),
       has_connections_ |-> p.has_connections_,
       glif_model_ |-> updateStr(d, "glif_model", p.glif_model_) ]

\* the checks with the first one comparing by > in place of >=
ScalarChecksFail_strict(q) ==
  \/ q.V_reset_ > q.th_inf_
  \/ q.C_m_ <= 0
  \/ q.G_ <= 0
  \/ q.t_ref_ <= 0
  \/ q.b_voltage_ <= 0
  \/ q.b_spike_ <= 0
  \/ \E a \in 1..Len(q.k_) : q.k_[a] <= 0

\* the checks of lines 183-222, on the assigned parameters
ScalarChecksFail(q) ==
  \/ q.V_reset_ >= q.th_inf_
  \/ q.C_m_ <= 0
  \/ q.G_ <= 0
  \/ q.t_ref_ <= 0
  \/ q.b_voltage_ <= 0
  \/ q.b_spike_ <= 0
  \/ \E a \in 1..Len(q.k_) : q.k_[a] <= 0

\* lines 224-241: old_n_receptors is read from tau_syn_ as line 180 left it
PortChecksFail(q, d) ==
  LET old_n_receptors == n_receptors_(q)
      q2 == [q EXCEPT !.tau_syn_ = updateVec(d, "tau_syn", q.tau_syn_)]
  IN /\ Known(d, "tau_syn")
     /\ \/ n_receptors_(q2) /= old_n_receptors /\ q2.has_connections_ = TRUE
        \/ \E i \in 1..Len(q2.tau_syn_) : q2.tau_syn_[i] <= 0

\* Parameters_::set on the object p: what p holds when the call ends, whether
\* it threw BadProperty, and delta_EL, the value a completed call returns
Parameters_set(p, d) ==
  LET q == Parameters_assign(p, d)
  IN [ p |-> q,
       threw |-> ScalarChecksFail(q) \/ PortChecksFail(q, d),
       delta_EL |-> q.E_L_ - p.E_L_ ]

----------------------------------------------------------------------------
(* State_::set *)

State_set(s, d, p, delta_EL) ==
  [s EXCEPT !.U_ = Relative(d, "V_m", s.U_, p.E_L_, delta_EL),
            !.ASCurrents_ = updateVec(d, "ASCurrents", s.ASCurrents_)]

----------------------------------------------------------------------------
(* set_status *)

\* set_status with the assignments made on P_ and S_ themselves
set_status_in_place(p, s, d) ==
  LET r == Parameters_set(p, d)
  IN [ P |-> r.p,
       S |-> IF r.threw THEN s ELSE State_set(s, d, r.p, r.delta_EL),
       threw |-> r.threw,
       delta_EL |-> r.delta_EL ]

\* set_status: temporaries ptmp, stmp; written back only when nothing threw
set_status(p, s, d) ==
  LET r == Parameters_set(p, d)
  IN IF r.threw
     THEN [P |-> p, S |-> s, threw |-> TRUE, delta_EL |-> r.delta_EL]
     ELSE [ P |-> r.p,
            S |-> State_set(s, d, r.p, r.delta_EL),
            threw |-> FALSE,
            delta_EL |-> r.delta_EL ]

----------------------------------------------------------------------------
(* handles_test_event( SpikeEvent&, rport ) *)

\* has_connections_ set before the receptor type is looked at
handles_test_event_flag_first(p, receptor_type) ==
  IF receptor_type <= 0 \/ receptor_type > n_receptors_(p)
  THEN [P |-> [p EXCEPT !.has_connections_ = TRUE], threw |-> TRUE, port |-> 0]
  ELSE [ P |-> [p EXCEPT !.has_connections_ = TRUE],
         threw |-> FALSE,
         port |-> receptor_type ]

\* lines 557-568
handles_test_event(p, receptor_type) ==
  IF receptor_type <= 0 \/ receptor_type > n_receptors_(p)
  THEN [P |-> p, threw |-> TRUE, port |-> 0]
  ELSE [ P |-> [p EXCEPT !.has_connections_ = TRUE],
         threw |-> FALSE,
         port |-> receptor_type ]

----------------------------------------------------------------------------
(* What the kernel holds, and the record of the last call *)

\* how many set_status calls a behaviour makes
MaxSets == 2

\* how many steps a behaviour simulates
MaxSteps == 6

\* the longest update call, in steps
MaxSlice == 2

\* how far ahead of the slice origin an event is delivered, in steps
MaxRel == 2

\* how many events a behaviour delivers
MaxEvents == 2

\* how many times calibrate runs
MaxCalibrates == 2

\* the steps the ring buffers hold a value for
Horizon == MaxSteps + MaxRel

\* the receptor types a connection is tried with
MaxRport == 3

Kernel0 ==
  [ dt |-> SCALE,          \* Time::get_resolution().get_ms()
    origin |-> 0,          \* the slice origin, in steps
    run |-> "idle",        \* "idle", "prepared" by calibrate, "running"
    aborted |-> FALSE,     \* the assert of update has failed
    nset |-> 0,            \* set_status calls made
    ncal |-> 0,            \* calibrate calls made
    buffers_initialized |-> FALSE,
    ports |-> {},          \* the receptor types handles_test_event accepted
    events |-> <<>> ]      \* the events handled, oldest first

\* no call made yet; P0 and S0 are read only once a set_status has filled them
NoCall ==
  [ op |-> "none", d |-> EmptyDict, threw |-> FALSE, ret |-> 0,
    P0 |-> Parameters_,
    S0 |-> State_(Parameters_, [ASCurrents_sum_ |-> 0, I_syn_ |-> 0]) ]

----------------------------------------------------------------------------
(* The update dictionaries a behaviour draws.  The potentials drawn are   *)
(* whole millivolts or the default E_L: every difference Parameters_::set *)
(* and State_::set form from them is exact in double arithmetic, so two   *)
(* potentials are equal on the grid exactly when the doubles are equal.   *)
(* A value such as -51.68 is left out: -51.68 - E_L_ is rounded, and the  *)
(* comparison with the literal 27.17 of the constructor then turns on the *)
(* last bit of the double, which the grid does not hold.                  *)

Candidates ==
  [ E_L |-> {Num(-70000), Num(-80000)},
    V_reset |-> {Num(-75000), Num(-50000)},
    V_th |-> {Num(-50000), Num(-78850)},
    g |-> {Num(5000), Num(0)},
    C_m |-> {Num(100000), Num(-1000)},
    t_ref |-> {Num(2000), Num(0)},
    a_spike |-> {Num(500)},
    b_spike |-> {Num(20), Num(0)},
    a_reset |-> {Num(500)},
    b_reset |-> {Num(10000)},
    a_voltage |-> {Num(10)},
    b_voltage |-> {Num(50), Num(-5)},
    V_m |-> {Num(-60000)},
    asc_init |-> {Vec(<<1000, 2000>>)},
    k |-> {Vec(<<10, 20>>), Vec(<<10, 0>>)},
    asc_amps |-> {Vec(<<-5000, -10000>>)},
    r |-> {Vec(<<500, 500>>)},
    tau_syn |-> {Vec(<<1000>>), Vec(<<2000, 3000>>), Vec(<<2000, 0>>)},
    ASCurrents |-> {Vec(<<3000, 4000>>)},
    glif_model |-> {Str("lif_r_asc_a"), Str("bogus")} ]

\* one entry
Singles ==
  UNION {{Def(EmptyDict, key, x) : x \in Candidates[key]} : key \in SetKeys}

\* a new E_L together with one other entry
WithE_L ==
  {Def(d, "E_L", x) : d \in {e \in Singles : ~Known(e, "E_L")},
                      x \in Candidates["E_L"]}

\* the dictionary get_status returns, as far as set_status reads it
ReadBack(p, s) ==
  [keys |-> SetKeys, val |-> [key \in SetKeys |-> get_status(p, s)[key]]]

UpdateDicts(p, s) == {EmptyDict, ReadBack(p, s)} \cup Singles \cup WithE_L

----------------------------------------------------------------------------
(* The calls on the parameter interface *)

\* SetStatus on the node: set_status( d )
SetStatus(d) ==
  /\ K.nset < MaxSets
  /\ LET r == set_status(P, S, d)
     IN /\ P' = r.P
        /\ S' = r.S
        /\ call' = [ op |-> "set_status", d |-> d, threw |-> r.threw,
                     ret |-> r.delta_EL, P0 |-> P, S0 |-> S ]
  /\ K' = [K EXCEPT !.nset = @ + 1, !.run = "idle"]
  /\ UNCHANGED <<V, B, log>>

\* Connect to the node: handles_test_event( SpikeEvent&, receptor_type )
ConnectSpike(receptor_type) ==
  /\ LET r == handles_test_event(P, receptor_type)
     IN /\ P' = r.P
        /\ call' = [ op |-> "handles_test_event",
                     d |-> [receptor_type |-> receptor_type],
                     threw |-> r.threw, ret |-> r.port, P0 |-> P, S0 |-> S ]
  /\ K' = [K EXCEPT !.run = "idle",
                    !.ports = IF P'.has_connections_ /\ call'.ret > 0
                              THEN @ \cup {receptor_type} ELSE @]
  /\ UNCHANGED <<S, V, B, log>>

\* V_ of a new node in memory that holds mem: the vectors are empty, the six
\* doubles hold what was there until calibrate writes them
Variables_(mem) ==
  [ t_ref_remaining_ |-> mem.t_ref_remaining_,
    t_ref_total_ |-> mem.t_ref_total_,
    last_spike_ |-> mem.last_spike_, last_voltage_ |-> mem.last_voltage_,
    P11_ |-> <<>>, P21_ |-> <<>>, P22_ |-> <<>>,
    P31_ |-> <<>>, P32_ |-> <<>>, P30_ |-> mem.P30_, P33_ |-> mem.P33_,
    PSCInitialValues_ |-> <<>> ]

\* a RingBuffer: the value accumulated for each step, all zero when made
RingBuffer == [t \in 0..Horizon |-> 0]

Buffers0 == [spikes_ |-> <<>>, currents_ |-> RingBuffer]

\* the node as glif_psc::glif_psc() leaves it
Init ==
  /\ P = Parameters_
  /\ \E mem \in Unset :
       /\ S = State_(Parameters_, mem)
       /\ V = Variables_(mem)
  /\ B = Buffers0
  /\ K = Kernel0
  /\ call = NoCall
  /\ log = <<>>

NextParam ==
  \/ \E d \in UpdateDicts(P, S) : SetStatus(d)
  \/ \E r \in 0..MaxRport : ConnectSpike(r)

SpecParam == Init /\ [][NextParam]_vars

----------------------------------------------------------------------------
(* Claims on the parameter interface, under SpecParam *)

FailedSet == call.op = "set_status" /\ call.threw

DoneSet == call.op = "set_status" /\ ~call.threw

\* C1: a set_status that fails a check leaves what get_status returns, and
\* the stored parameters and state, exactly as they were before the call
C1_FailedSetChangesNothing ==
  FailedSet =>
    /\ get_status(P, S) = get_status(call.P0, call.S0)
    /\ P = call.P0
    /\ S = call.S0

\* a failed update that also held a new E_L, after an earlier change
C1_Witness ==
  /\ FailedSet
  /\ Known(call.d, "E_L")
  /\ call.d.val["E_L"].n /= call.P0.E_L_
  /\ call.P0 /= Parameters_

\* C2 as stated: once a connection is accepted, a set_status whose tau_syn
\* has another number of entries than there are ports throws, and the number
\* of ports stays what it was
C2_PortCountFrozen ==
  (call.op = "set_status" /\ call.P0.has_connections_) =>
    /\ (Known(call.d, "tau_syn")
         /\ Len(call.d.val["tau_syn"].v) /= n_receptors_(call.P0))
       => call.threw
    /\ n_receptors_(P) = n_receptors_(call.P0)

\* C3: the stored parameters keep reset < threshold baseline and C_m, g,
\* t_ref, every tau_syn and every k strictly positive
C3_ParametersValid ==
  /\ P.V_reset_ < P.th_inf_
  /\ P.C_m_ > 0
  /\ P.G_ > 0
  /\ P.t_ref_ > 0
  /\ \A i \in 1..Len(P.tau_syn_) : P.tau_syn_[i] > 0
  /\ \A a \in 1..Len(P.k_) : P.k_[a] > 0

\* an accepted update after a rejected one, with the parameters changed
C3_Witness ==
  /\ DoneSet
  /\ K.nset = MaxSets
  /\ P /= call.P0
  /\ call.P0 = Parameters_
  /\ Known(call.d, "V_reset")

\* C4: after an accepted set_status, get_status returns the given value
\* under each key of the update and the previous value under every other key
C4_GetAfterSet ==
  DoneSet =>
    /\ \A key \in SetKeys :
         get_status(P, S)[key] =
           IF Known(call.d, key) THEN call.d.val[key]
           ELSE get_status(call.P0, call.S0)[key]
    /\ get_status(P, S)["has_connections"]
         = get_status(call.P0, call.S0)["has_connections"]

\* an accepted update that moves E_L and leaves V_reset, V_th and V_m out
C4_Witness ==
  /\ DoneSet
  /\ Known(call.d, "E_L")
  /\ P.E_L_ /= call.P0.E_L_
  /\ call.d.keys \cap {"V_reset", "V_th", "V_m"} = {}
  /\ call.S0.U_ /= 0

\* an accepted update with the dictionary get_status just returned
C4_WitnessReadBack ==
  /\ DoneSet
  /\ call.d = ReadBack(call.P0, call.S0)
  /\ call.P0 /= Parameters_

\* C5 as stated: an accepted set_status that moves E_L by delta returns delta
\* and shifts by -delta each stored relative potential not given in the
\* update: V_reset_, th_inf_, U_ and threshold_
C5_AllRelativePotentialsShifted ==
  DoneSet =>
    LET delta == P.E_L_ - call.P0.E_L_
    IN /\ call.ret = delta
       /\ ~Known(call.d, "V_reset") => P.V_reset_ = call.P0.V_reset_ - delta
       /\ ~Known(call.d, "V_th") => P.th_inf_ = call.P0.th_inf_ - delta
       /\ ~Known(call.d, "V_m") => S.U_ = call.S0.U_ - delta
       /\ S.threshold_ = call.S0.threshold_ - delta

\* C13: handles_test_event( SpikeEvent&, r ) returns r and sets
\* has_connections_ exactly when 1 <= r <= n_receptors_(); for every other r
\* it throws IncompatibleReceptorType and leaves has_connections_ and the
\* rest of the node as they were; only ports it has accepted are connected
C13_ConnectChecksPort ==
  /\ call.op = "handles_test_event" =>
       /\ ~call.threw <=> /\ 1 <= call.d.receptor_type
                          /\ call.d.receptor_type <= n_receptors_(call.P0)
       /\ ~call.threw =>
            /\ call.ret = call.d.receptor_type
            /\ P = [call.P0 EXCEPT !.has_connections_ = TRUE]
            /\ call.d.receptor_type \in K.ports
       /\ call.threw => P = call.P0
       /\ S = call.S0
  /\ K.ports /= {} => P.has_connections_

\* the first port above the last, refused on a node that has two ports and
\* no connection
C13_Witness ==
  /\ call.op = "handles_test_event"
  /\ call.threw
  /\ n_receptors_(call.P0) = 2
  /\ call.d.receptor_type = 3
  /\ ~P.has_connections_

\* C14 as stated: a set_status whose glif_model is not a key of
\* model_type_lu throws and leaves the parameters as they were, and the
\* stored glif_model is always a key of model_type_lu
C14_UnknownModelRejected ==
  /\ (call.op = "set_status" /\ Known(call.d, "glif_model")
        /\ ToLower(call.d.val["glif_model"].s) \notin DOMAIN model_type_lu)
       => (call.threw /\ P = call.P0)
  /\ ToLower(P.glif_model_) \in DOMAIN model_type_lu

----------------------------------------------------------------------------
(* init_buffers_ and calibrate *)

init_buffers_(b) == [spikes_ |-> <<>>, currents_ |-> RingBuffer]

\* a resize that leaves the vector as it is
Resize_not_done(v, n, x) == v

\* std::vector::resize( n ): the first n elements kept, new ones as given
Resize(v, n, x) == [i \in 1..n |-> IF i <= Len(v) THEN v[i] ELSE x]

\* propagator_32 of propagator_stability.h: from the second stage to V,
\* a factor
propagator_32(tau_syn, tau, c, h) ==
  IF tau = tau_syn
  THEN FDiv(FMul(h, ExpNeg(Ratio(h, tau))), c)
  ELSE LET beta == FDiv(FMul(tau_syn, tau), tau - tau_syn)
       IN FDiv(FMul(beta, ExpNeg(Ratio(h, tau)) - ExpNeg(Ratio(h, tau_syn))), c)

\* propagator_31 of propagator_stability.h: from the first stage to V,
\* a factor
propagator_31(tau_syn, tau, c, h) ==
  IF tau = tau_syn
  THEN FDiv(FMul(FMul(h, h) \div 2, ExpNeg(Ratio(h, tau))), c)
  ELSE LET beta == FDiv(FMul(tau_syn, tau), tau - tau_syn)
           P11 == ExpNeg(Ratio(h, tau_syn))
           P33 == ExpNeg(Ratio(h, tau))
       IN FDiv(FMul(FMul(beta, beta), P33 - P11) - FMul(FMul(h, beta), P11), c)

\* V_ and S_.y1_, S_.y2_, B_.spikes_ as calibrate leaves them, h the
\* resolution.  t_ref_remaining_, t_ref_total_, last_spike_ and last_voltage_
\* are quantities; the propagators and PSCInitialValues_ are factors; Tau_
\* is the quantity nearest to C_m_ / G_
calibrate(p, s, v, b, h) ==
  LET n == n_receptors_(p)
      Tau_ == (Ratio(p.C_m_, p.G_) + SCALE \div 2) \div SCALE
      P33 == ExpNeg(Ratio(h, Tau_))
      P11 == [i \in 1..n |-> ExpNeg(Ratio(h, p.tau_syn_[i]))]
  IN [ V |-> [ t_ref_remaining_ |-> 0,
               t_ref_total_ |-> p.t_ref_,
               last_spike_ |-> 0,
               last_voltage_ |-> 0,
               P11_ |-> P11,
               P21_ |-> [i \in 1..n |-> FMul(h, P11[i])],
               P22_ |-> P11,
               P31_ |-> [i \in 1..n |-> propagator_31(p.tau_syn_[i], Tau_, p.C_m_, h)],
               P32_ |-> [i \in 1..n |-> propagator_32(p.tau_syn_[i], Tau_, p.C_m_, h)],
               P30_ |-> FDiv(FMul(FINE - P33, Tau_), p.C_m_),
               P33_ |-> P33,
               PSCInitialValues_ |-> [i \in 1..n |-> FDiv(e_, p.tau_syn_[i])] ],
       S |-> [s EXCEPT !.y1_ = Resize(s.y1_, n, 0), !.y2_ = Resize(s.y2_, n, 0)],
       B |-> [b EXCEPT !.spikes_ = Resize(b.spikes_, n, RingBuffer)] ]

----------------------------------------------------------------------------
(* update: one step of the loop *)

RECURSIVE SumSeq(_)
SumSeq(q) == IF q = <<>> THEN 0 ELSE Head(q) + SumSeq(Tail(q))

\* the tag looked up as it is written
KnownModel_as_written(p) == p.glif_model_ \in DOMAIN model_type_lu

\* lines 377-384: the tag, in lower case, is a key of model_type_lu
KnownModel(p) == ToLower(p.glif_model_) \in DOMAIN model_type_lu

model_type(p) == model_type_lu[ToLower(p.glif_model_)]

\* the crossing time counted from the start of the step
SpikeOffset_from_start(v_old, th_old, U, threshold, dt) ==
  LET num == v_old - th_old
      den == (threshold - th_old) - (U - v_old)
  IN IF den = 0
     THEN (IF num = 0 THEN NaN ELSE IF num < 0 THEN NegInf ELSE PosInf)
     ELSE FMul(FDiv(num, den), dt)

\* spike_offset of lines 514-518
SpikeOffset(v_old, th_old, U, threshold, dt) ==
  LET num == v_old - th_old
      den == (threshold - th_old) - (U - v_old)
  IN IF den = 0
     THEN (IF num = 0 THEN NaN ELSE IF num < 0 THEN PosInf ELSE NegInf)
     ELSE FMul(SCALE - FDiv(num, den), dt)

\* the assert of line 454 taken as holding whatever the values
ResetAccepted_unchecked(U, threshold) == TRUE

\* the assert of line 454: S_.U_ <= S_.threshold_
ResetAccepted(U, threshold) == U <= threshold

\* has "R": the reset is affine and the threshold has a spike component
HasR(mt) == mt = 2 \/ mt = 4 \/ mt = 5

\* after-spike currents in every variant
HasASC_always(mt) == TRUE

\* has "ASC": after-spike currents
HasASC(mt) == mt = 3 \/ mt = 4 \/ mt = 5

\* lines 415-424: the after-spike currents on leaving the refractory period
ResetASCurrents(p, s, v, mt) ==
  IF HasASC(mt)
  THEN [a \in 1..Len(s.ASCurrents_) |->
          p.asc_amps_[a]
            + Scaled(FMul(s.ASCurrents_[a], p.r_[a]),
                     ExpNeg(p.k_[a] * v.t_ref_total_))]
  ELSE s.ASCurrents_

\* the affine reset in every variant
ResetPotential_affine(p, s, mt) ==
  FMul(p.voltage_reset_a_, s.U_) + p.voltage_reset_b_

\* lines 426-436: the potential on leaving the refractory period
ResetPotential(p, s, mt) ==
  IF mt = 1 \/ mt = 3 THEN p.V_reset_
  ELSE FMul(p.voltage_reset_a_, s.U_) + p.voltage_reset_b_

\* the spike component started again from a_spike_
ResetSpikeComponent_restarted(p, v, mt) ==
  IF mt = 1 \/ mt = 3 THEN v.last_spike_ ELSE p.a_spike_

\* line 438: the spike component of the threshold
ResetSpikeComponent(p, v, mt) ==
  IF mt = 1 \/ mt = 3 THEN v.last_spike_ ELSE v.last_spike_ + p.a_spike_

\* line 442: the threshold
ResetThreshold(p, s, v, mt) ==
  IF mt = 1 \/ mt = 3 THEN s.threshold_
  ELSE ResetSpikeComponent(p, v, mt) + v.last_voltage_ + p.th_inf_

\* what a branch of the step leaves: S_, V_, the local voltage_component,
\* whether the refractory period ended, the spike events sent, the synaptic
\* term of the potential, and whether the assert failed
Branch(s, v, voltage_component, exit, sent, syn, failed) ==
  [ S |-> s, V |-> v, voltage_component |-> voltage_component,
    exit |-> exit, sent |-> sent, syn |-> syn, failed |-> failed ]

\* the potential left to decay while the refractory period lasts
Refractory_leaky(p, s, v, loc, dt, mt) ==
  IF v.t_ref_remaining_ - dt <= 0
  THEN Branch([s EXCEPT !.ASCurrents_ = ResetASCurrents(p, s, v, mt),
                        !.U_ = ResetPotential(p, s, mt),
                        !.threshold_ = ResetThreshold(p, s, v, mt)],
              [v EXCEPT !.t_ref_remaining_ = @ - dt,
                        !.last_spike_ = ResetSpikeComponent(p, v, mt)],
              loc.voltage_component, TRUE, <<>>, 0,
              ~ResetAccepted(ResetPotential(p, s, mt),
                             ResetThreshold(p, s, v, mt)))
  ELSE Branch([s EXCEPT !.U_ = Scaled(loc.v_old, v.P33_)],
              [v EXCEPT !.t_ref_remaining_ = @ - dt],
              loc.voltage_component, FALSE, <<>>, 0, FALSE)

\* lines 405-460: the branch taken while t_ref_remaining_ > 0
Refractory(p, s, v, loc, dt, mt) ==
  IF v.t_ref_remaining_ - dt <= 0
  THEN Branch([s EXCEPT !.ASCurrents_ = ResetASCurrents(p, s, v, mt),
                        !.U_ = ResetPotential(p, s, mt),
                        !.threshold_ = ResetThreshold(p, s, v, mt)],
              [v EXCEPT !.t_ref_remaining_ = @ - dt,
                        !.last_spike_ = ResetSpikeComponent(p, v, mt)],
              loc.voltage_component, TRUE, <<>>, 0,
              ~ResetAccepted(ResetPotential(p, s, mt),
                             ResetThreshold(p, s, v, mt)))
  ELSE Branch([s EXCEPT !.U_ = loc.v_old],
              [v EXCEPT !.t_ref_remaining_ = @ - dt],
              loc.voltage_component, FALSE, <<>>, 0, FALSE)

\* lines 489-501: the voltage component of the threshold, model 5, with
\* the quantity beta and the factors phi and ab = a_voltage / b_voltage given
VoltageComponentOf(p, v, v_old, dt, beta, phi, ab) ==
  Scaled(Scaled(v_old - beta, phi), ExpNeg(FDiv(p.G_ * dt, p.C_m_)))
    + Scaled(v.last_voltage_ - Scaled(v_old - beta, phi) - Scaled(beta, ab),
             ExpNeg(p.b_voltage_ * dt))
    + Scaled(beta, ab)

\* lines 493-494: beta and phi; b_voltage_ - G_ / C_m_ is formed on the
\* fine grid
VoltageComponent(p, v, v_old, I, dt) ==
  VoltageComponentOf(p, v, v_old, dt,
                     FDiv(I, p.G_),
                     Ratio(p.a_voltage_ * SCALE,
                           p.b_voltage_ * SCALE - Ratio(p.G_, p.C_m_)),
                     Ratio(p.a_voltage_, p.b_voltage_))

\* lines 466-476: the sum of the after-spike currents, and their decay
ASCurrentsSum(s, mt) == IF HasASC(mt) THEN SumSeq(s.ASCurrents_) ELSE 0

DecayASCurrents(p, s, dt, mt) ==
  IF HasASC(mt)
  THEN [a \in 1..Len(s.ASCurrents_) |->
          Scaled(s.ASCurrents_[a], ExpNeg(p.k_[a] * dt))]
  ELSE s.ASCurrents_

\* lines 481-487: the synaptic term of the potential
SynapticTerm(p, s, v) ==
  SumSeq([i \in 1..n_receptors_(p) |->
            Scaled(s.y1_[i], v.P31_[i]) + Scaled(s.y2_[i], v.P32_[i])])

\* lines 506-524: the spike, when the new potential is above the threshold
Detect(s, v, loc, dt, asc_sum, asc, syn, I_syn, voltage_component, U, threshold) ==
  Branch([s EXCEPT !.ASCurrents_sum_ = asc_sum, !.ASCurrents_ = asc,
                   !.U_ = U, !.I_syn_ = I_syn, !.threshold_ = threshold],
         [v EXCEPT !.last_voltage_ = voltage_component,
                   !.t_ref_remaining_ =
                     IF U > threshold THEN v.t_ref_total_ ELSE @],
         voltage_component, FALSE,
         IF U > threshold
         THEN <<[offset |-> SpikeOffset(loc.v_old, loc.th_old, U, threshold, dt)]>>
         ELSE <<>>,
         syn, FALSE)

\* lines 477-504: the new potential and threshold
Membrane(p, s, v, loc, dt, asc_sum, asc, syn, voltage_component) ==
  CHOOSE r \in
    { Detect(s, v, loc, dt, asc_sum, asc, syn, I_syn, voltage_component,
             U, v.last_spike_ + voltage_component + p.th_inf_) :
        I_syn \in {SumSeq([i \in 1..n_receptors_(p) |-> s.y2_[i]])},
        U \in {Scaled(loc.v_old, v.P33_) + Scaled(s.I_ + asc_sum, v.P30_) + syn} }
    : TRUE

\* lines 461-525: the branch taken otherwise
Integrate(p, s, v, loc, dt, mt) ==
  CHOOSE r \in
    { Membrane(p, s, v, loc, dt, asc_sum, asc, syn, voltage_component) :
        asc_sum \in {ASCurrentsSum(s, mt)},
        asc \in {DecayASCurrents(p, s, dt, mt)},
        syn \in {SynapticTerm(p, s, v)},
        voltage_component \in
          {IF mt = 5
           THEN VoltageComponent(p, v, loc.v_old, s.I_ + ASCurrentsSum(s, mt), dt)
           ELSE loc.voltage_component} } : TRUE

\* RingBuffer::get_value: the value of the slot, which is then zero
get_value(buf, t) == [value |-> buf[t], buf |-> [buf EXCEPT ![t] = 0]]

\* the slot set to the value given
add_value_overwrite(buf, t, x) == [buf EXCEPT ![t] = x]

\* RingBuffer::add_value
add_value(buf, t, x) == [buf EXCEPT ![t] = @ + x]

\* the first stage fed before the second stage is advanced
Synapses_input_first(p, s, v, in) ==
  [ y2 |-> [i \in 1..n_receptors_(p) |->
              Scaled(s.y1_[i] + Scaled(in[i], v.PSCInitialValues_[i]), v.P21_[i])
                + Scaled(s.y2_[i], v.P22_[i])],
    y1 |-> [i \in 1..n_receptors_(p) |->
              Scaled(s.y1_[i] + Scaled(in[i], v.PSCInitialValues_[i]), v.P11_[i])] ]

\* lines 527-537: the two stages of each receptor, in[i] the value consumed
Synapses(p, s, v, in) ==
  [ y2 |-> [i \in 1..n_receptors_(p) |->
              Scaled(s.y1_[i], v.P21_[i]) + Scaled(s.y2_[i], v.P22_[i])],
    y1 |-> [i \in 1..n_receptors_(p) |->
              Scaled(s.y1_[i], v.P11_[i]) + Scaled(in[i], v.PSCInitialValues_[i])] ]

\* lines 395-403: the spike component of the threshold at the top of the loop
SpikeComponent(p, m, dt) ==
  IF HasR(model_type(p))
  THEN Scaled(m.V.last_spike_, ExpNeg(p.b_spike_ * dt))
  ELSE m.loc.spike_component

\* the branch of the step, on V_ with last_spike_ = spike_component
TakeBranch(p, s, v, loc, dt, mt) ==
  IF v.t_ref_remaining_ > 0 THEN Refractory(p, s, v, loc, dt, mt)
  ELSE Integrate(p, s, v, loc, dt, mt)

\* the values the step consumes from the buffers for step t
SpikesIn(p, b, t) == [i \in 1..n_receptors_(p) |-> get_value(b.spikes_[i], t).value]

\* the record of a step: the values of the step, and S_ and V_ as the step
\* found them and as it left them
Entry(m, t, dt, r, s2, in) ==
  [ step |-> t, refractory |-> m.V.t_ref_remaining_ > 0, exit |-> r.exit,
    sent |-> r.sent,
    v_old |-> m.loc.v_old, th_old |-> m.loc.th_old,
    U |-> r.S.U_, threshold |-> r.S.threshold_,
    rem |-> r.V.t_ref_remaining_, total |-> r.V.t_ref_total_,
    dt |-> dt, syn |-> r.syn, I_syn |-> r.S.I_syn_,
    y1 |-> s2.y1_, y2 |-> s2.y2_, in |-> in, I |-> s2.I_,
    failed |-> r.failed,
    before |-> [S |-> m.S, V |-> m.V],
    after |-> [S |-> s2, V |-> r.V] ]

\* the step when the assert fails: the process ends inside the branch
Fail(m, t, dt, r, spike_component) ==
  [ S |-> r.S, V |-> r.V, B |-> m.B,
    loc |-> [m.loc EXCEPT !.spike_component = spike_component],
    log |-> Append(m.log,
                   Entry(m, t, dt, r, r.S, [i \in 1..Len(r.S.y1_) |-> 0])),
    aborted |-> TRUE ]

\* lines 527-553: the rest of the step, y the new stages of the synapses
Finish(p, m, t, dt, r, spike_component, in, y) ==
  [ S |-> [r.S EXCEPT !.y1_ = y.y1, !.y2_ = y.y2,
                      !.I_ = get_value(m.B.currents_, t).value],
    V |-> r.V,
    B |-> [ spikes_ |-> [i \in 1..n_receptors_(p) |->
                           get_value(m.B.spikes_[i], t).buf],
            currents_ |-> get_value(m.B.currents_, t).buf ],
    loc |-> [ v_old |-> r.S.U_, th_old |-> r.S.threshold_,
              spike_component |-> spike_component,
              voltage_component |-> r.voltage_component ],
    log |-> Append(m.log,
                   Entry(m, t, dt, r,
                         [r.S EXCEPT !.y1_ = y.y1, !.y2_ = y.y2,
                                     !.I_ = get_value(m.B.currents_, t).value],
                         in)),
    aborted |-> FALSE ]

\* the buffers read only in the steps that integrate
Complete_integrating_only(p, m, t, dt, r, spike_component, in) ==
  IF r.failed THEN Fail(m, t, dt, r, spike_component)
  ELSE IF m.V.t_ref_remaining_ > 0
  THEN [ S |-> r.S, V |-> r.V, B |-> m.B,
         loc |-> [ v_old |-> r.S.U_, th_old |-> r.S.threshold_,
                   spike_component |-> spike_component,
                   voltage_component |-> r.voltage_component ],
         log |-> Append(m.log,
                        Entry(m, t, dt, r, r.S, [i \in 1..Len(r.S.y1_) |-> 0])),
         aborted |-> FALSE ]
  ELSE Finish(p, m, t, dt, r, spike_component, in, Synapses(p, r.S, r.V, in))

\* lines 527-553 are reached unless the assert of line 454 has failed
Complete(p, m, t, dt, r, spike_component, in) ==
  IF r.failed THEN Fail(m, t, dt, r, spike_component)
  ELSE Finish(p, m, t, dt, r, spike_component, in, Synapses(p, r.S, r.V, in))

\* the branch, then the rest of the step
StepWith(p, m, dt, t, spike_component) ==
  CHOOSE n \in
    { Complete(p, m, t, dt, r, spike_component, SpikesIn(p, m.B, t)) :
        r \in {TakeBranch(p, m.S, [m.V EXCEPT !.last_spike_ = spike_component],
                          m.loc, dt, model_type(p))} } : TRUE

\* one pass of the loop of update, for the step t = origin + lag; m holds
\* S_, V_, B_, the locals of update, the log and whether the assert failed
Step(p, m, dt, t) ==
  CHOOSE n \in { StepWith(p, m, dt, t, spike_component) :
                   spike_component \in {SpikeComponent(p, m, dt)} } : TRUE

\* the loop of update over the steps t0 .. t1 - 1; nothing runs after the
\* assert has failed
RECURSIVE Loop(_, _, _, _, _)
Loop(p, m, dt, t0, t1) ==
  IF t0 >= t1 \/ m.aborted THEN m
  ELSE CHOOSE r \in { Loop(p, n, dt, t0 + 1, t1) : n \in {Step(p, m, dt, t0)} } : TRUE

\* the previous potential taken as 0 when a call of update starts
Locals_from_rest(s) ==
  [ v_old |-> 0, th_old |-> s.threshold_,
    spike_component |-> 0, voltage_component |-> 0 ]

\* lines 387-390: the locals of update as a call of update starts
Locals(s) ==
  [ v_old |-> s.U_, th_old |-> s.threshold_,
    spike_component |-> 0, voltage_component |-> 0 ]

\* update( origin, from, to ) once the model type is known
update(p, s, v, b, lg, dt, t0, t1) ==
  Loop(p,
       [ S |-> s, V |-> v, B |-> b, loc |-> Locals(s),
         log |-> lg, aborted |-> FALSE ],
       dt, t0, t1)

----------------------------------------------------------------------------------------------------------------------------------------
(* The simulation of one node *)

Models == {"lif", "lif_r", "lif_asc", "lif_r_asc", "lif_r_asc_a"}

\* refractory time and resolution, in ms: three steps exactly, and two
\* steps of which the second is only begun
Setups == {[t_ref |-> 3 * SCALE, dt |-> SCALE], [t_ref |-> 3750, dt |-> 2 * SCALE]}

\* the parameters a node is created with: those of its model prototype
Prototype(m, t_ref) ==
  [Parameters_ EXCEPT !.glif_model_ = m, !.t_ref_ = t_ref,
                      !.tau_syn_ = <<2000, 1000>>]

\* weight * current of the current events, in pA
Currents == {2000 * SCALE}

\* weight * multiplicity of the spike events, in pA
Weights == {SCALE}

InitSim ==
  \E m \in Models, su \in Setups :
    /\ P = Prototype(m, su.t_ref)
    /\ \E mem \in Unset :
         /\ S = State_(Parameters_, mem)
         /\ V = Variables_(mem)
    /\ B = Buffers0
    /\ K = [Kernel0 EXCEPT !.dt = su.dt]
    /\ call = NoCall
    /\ log = <<>>

\* the events handled are kept in the order of their delivery steps
EventBefore(a, b) ==
  \/ a.step < b.step
  \/ a.step = b.step /\ a.rport < b.rport
  \/ a.step = b.step /\ a.rport = b.rport /\ a.w <= b.w

RECURSIVE Insert(_, _)
Insert(q, e) ==
  IF q = <<>> THEN <<e>>
  ELSE IF EventBefore(e, Head(q)) THEN <<e>> \o q
  ELSE <<Head(q)>> \o Insert(Tail(q), e)

\* the kernel's first preparation of the node: init_buffers_()
InitBuffers ==
  /\ ~K.buffers_initialized
  /\ B' = init_buffers_(B)
  /\ K' = [K EXCEPT !.buffers_initialized = TRUE]
  /\ call' = NoCall
  /\ UNCHANGED <<P, S, V, log>>

\* the kernel's preparation of the node for a run: calibrate()
Calibrate ==
  /\ K.buffers_initialized
  /\ ~K.aborted
  /\ K.run /= "prepared"
  /\ K.ncal < MaxCalibrates
  /\ LET r == calibrate(P, S, V, B, K.dt)
     IN /\ V' = r.V
        /\ S' = r.S
        /\ B' = r.B
  /\ K' = [K EXCEPT !.run = "prepared", !.ncal = @ + 1]
  /\ call' = NoCall
  /\ UNCHANGED <<P, log>>

\* update( origin, 0, n ) on a prepared node; the next slice starts n later
Update(n) ==
  /\ K.run /= "idle"
  /\ ~K.aborted
  /\ K.origin + n <= MaxSteps
  /\ call' = [NoCall EXCEPT !.op = "update", !.threw = ~KnownModel(P)]
  /\ IF ~KnownModel(P)
     THEN UNCHANGED <<P, S, V, B, K, log>>
     ELSE \E m \in {update(P, S, V, B, log, K.dt, K.origin, K.origin + n)} :
             /\ S' = m.S
             /\ V' = m.V
             /\ B' = m.B
             /\ log' = m.log
             /\ K' = [K EXCEPT !.origin = @ + n, !.run = "running",
                               !.aborted = m.aborted]
             /\ UNCHANGED P

\* handle( SpikeEvent& ) for an accepted receptor port, rel steps after the
\* slice origin, w = weight * multiplicity.  B_.spikes_[ rport - 1 ] is
\* indexed unchecked: past the end of spikes_ the behaviour is undefined,
\* and the write lands outside B_ or the process ends; the record of the
\* call then holds the port and the size of spikes_
HandleSpike(rport, rel, w) ==
  /\ K.run /= "idle"
  /\ ~K.aborted
  /\ Len(K.events) < MaxEvents
  /\ rport \in K.ports
  /\ K.origin + rel < MaxSteps
  /\ IF rport <= Len(B.spikes_)
     THEN /\ B' = [B EXCEPT !.spikes_[rport] = add_value(@, K.origin + rel, w)]
          /\ K' = [K EXCEPT !.events = Insert(@, [ rport |-> rport,
                                                   step |-> K.origin + rel,
                                                   w |-> w ])]
          /\ call' = NoCall
     ELSE /\ B' = B
          /\ \E ended \in BOOLEAN : K' = [K EXCEPT !.aborted = ended]
          /\ call' = [NoCall EXCEPT !.op = "handle", !.ret = rport,
                                    !.d = [size |-> Len(B.spikes_)]]
  /\ UNCHANGED <<P, S, V, log>>

\* handle( CurrentEvent& ), c = weight * current; in the record of the
\* events it has rport 0
HandleCurrent(rel, c) ==
  /\ K.run /= "idle"
  /\ ~K.aborted
  /\ Len(K.events) < MaxEvents
  /\ K.origin + rel < MaxSteps
  /\ B' = [B EXCEPT !.currents_ = add_value(@, K.origin + rel, c)]
  /\ K' = [K EXCEPT !.events = Insert(@, [ rport |-> 0,
                                           step |-> K.origin + rel, w |-> c ])]
  /\ call' = NoCall
  /\ UNCHANGED <<P, S, V, log>>

\* connections are made before the node is prepared
ConnectBefore(r) ==
  /\ ~K.buffers_initialized
  /\ ConnectSpike(r)

\* a node driven by currents, over one run or two
Next ==
  \/ InitBuffers
  \/ Calibrate
  \/ \E n \in 1..MaxSlice : Update(n)
  \/ \E rel \in 0..MaxRel, c \in Currents : HandleCurrent(rel, c)

Spec == InitSim /\ [][Next]_vars

----------------------------------------------------------------------------
(* Claims on the refractory period and the spike, under Spec *)

\* ceil( total / dt ), the number of steps of a refractory period
RefractorySteps(e) == (e.total + e.dt - 1) \div e.dt

Spiked(e) == e.sent /= <<>>

\* C6 as stated: after a spike in step n the next ceil(t_ref/h) steps take
\* the refractory branch, the last of them resets, and the step after them
\* integrates again, also when the steps belong to several calls of update
C6_RefractoryForCeilSteps ==
  \A i \in 1..Len(log) :
    Spiked(log[i]) =>
      /\ \A j \in 1..RefractorySteps(log[i]) :
           i + j <= Len(log) =>
             /\ log[i + j].refractory
             /\ log[i + j].exit <=> j = RefractorySteps(log[i])
      /\ i + RefractorySteps(log[i]) + 1 <= Len(log) =>
           ~log[i + RefractorySteps(log[i]) + 1].refractory

\* C7 as stated: a step sends a spike exactly when it integrates and its new
\* potential is above its new threshold; it then sends one spike and sets the
\* remaining refractory time to t_ref; and two spikes are at least
\* ceil(t_ref/h) + 1 steps apart
C7_SpikeOnlyWhenIntegrating ==
  /\ \A i \in 1..Len(log) :
       /\ Spiked(log[i]) <=> (~log[i].refractory /\ log[i].U > log[i].threshold)
       /\ Len(log[i].sent) <= 1
       /\ Spiked(log[i]) => log[i].rem = P.t_ref_
       /\ log[i].refractory => ~Spiked(log[i])
  /\ \A i, j \in 1..Len(log) :
       (i < j /\ Spiked(log[i]) /\ Spiked(log[j]))
         => j - i >= RefractorySteps(log[i]) + 1

\* the reset of step e left the potential above the threshold
BadReset(e) == e.exit /\ e.U > e.threshold

\* C8: a step that leaves the refractory period with the potential above
\* the threshold is the last step of the node: update ends there with the
\* process, the potential stays the value the reset gave it, and no later
\* step is recorded
C8_BadResetIsFatal ==
  \A i \in 1..Len(log) :
    BadReset(log[i]) =>
      /\ log[i].failed
      /\ K.aborted
      /\ i = Len(log)
      /\ S.U_ = log[i].U
      /\ S.threshold_ = log[i].threshold

\* a reset above the threshold, before the last step of the run
C8_Witness ==
  /\ K.aborted
  /\ Len(log) > 0
  /\ Len(log) < MaxSteps
  /\ BadReset(log[Len(log)])
  /\ log[Len(log)].U > log[Len(log)].threshold + SCALE

----------------------------------------------------------------------------
(* spike_offset as a function of the step, under SpecOffset *)

\* the potentials and thresholds before a spiking step, in mV
PreSteps == {[v_old |-> v, th_old |-> th] :
               v \in {8 * SCALE, 9 * SCALE, 10 * SCALE},
               th \in {10 * SCALE, 11 * SCALE}}

\* those after it
PostSteps == {[U |-> u, threshold |-> th] :
                u \in {12 * SCALE, 13 * SCALE, 14 * SCALE},
                th \in {10500, 11 * SCALE, 11500}}

Resolutions == {SCALE \div 10, SCALE, 2 * SCALE}

\* the step of the example: (9, 10) before, (12, 10.5) after, 1 ms
Example ==
  [v_old |-> 9 * SCALE, th_old |-> 10 * SCALE, U |-> 12 * SCALE,
   threshold |-> 10500, dt |-> SCALE]

InitOffset ==
  /\ P = Parameters_
  /\ \E mem \in Unset :
       /\ S = State_(Parameters_, mem)
       /\ V = Variables_(mem)
  /\ B = Buffers0
  /\ K = Kernel0
  /\ log = <<>>
  /\ \E a \in PreSteps, b \in PostSteps, dt \in Resolutions :
       call = [NoCall EXCEPT !.op = "step",
                             !.d = [v_old |-> a.v_old, th_old |-> a.th_old,
                                    U |-> b.U, threshold |-> b.threshold,
                                    dt |-> dt]]

\* lines 507-523 on the step held in call.d: the offset of the spike sent
SendSpike ==
  /\ call.op = "step"
  /\ call.d.U > call.d.threshold
  /\ call' = [call EXCEPT
                !.op = "spike_offset",
                !.ret = SpikeOffset(call.d.v_old, call.d.th_old, call.d.U,
                                    call.d.threshold, call.d.dt)]
  /\ UNCHANGED <<P, S, V, B, K, log>>

NextOffset == SendSpike

SpecOffset == InitOffset /\ [][NextOffset]_vars

\* the rate at which the potential closes on the threshold, times dt
Closing(d) == (d.U - d.v_old) - (d.threshold - d.th_old)

\* t is, to the rounding of the arithmetic, the time after the start of the
\* step at which the line from v_old to U meets the line from th_old to
\* threshold
IsCrossing(d, t) ==
  Abs(t * Closing(d) - d.dt * (d.th_old - d.v_old)) <= 2 * Closing(d)

\* C9, amended: the offset sent with the spike is the time from the crossing
\* of the two lines to the end of the step, dt less the crossing time counted
\* from the start of the step; for the example it is 0.6 ms, which is neither
\* end of the step
C9_OffsetCountsBackFromStepEnd ==
  call.op = "spike_offset" =>
    /\ IsCrossing(call.d, call.d.dt - call.ret)
    /\ call.d = Example => (call.ret = 600 /\ call.ret /= 0 /\ call.ret /= call.d.dt)

\* the spike of the example has been sent
C9_Witness ==
  /\ call.op = "spike_offset"
  /\ call.d = Example

\* C9 as stated: for the example the offset is the crossing time counted
\* from the start of the step, about 0.67 ms, and not the end of the step
C9_OffsetFromStepStart ==
  (call.op = "spike_offset" /\ call.d = Example) =>
    /\ IsCrossing(call.d, call.ret)
    /\ Abs(call.ret - 670) <= 10
    /\ call.ret /= call.d.dt

----------------------------------------------------------------------------
(* A node driven by spikes, under SpecSyn *)

\* the variants without and with every optional behaviour
SynModels == {"lif", "lif_r_asc_a"}

InitSyn ==
  \E m \in SynModels, su \in Setups :
    /\ P = Prototype(m, su.t_ref)
    /\ \E mem \in Unset :
         /\ S = State_(Parameters_, mem)
         /\ V = Variables_(mem)
    /\ B = Buffers0
    /\ K = [Kernel0 EXCEPT !.dt = su.dt]
    /\ call = NoCall
    /\ log = <<>>

NextSyn ==
  \/ \E r \in 0..MaxRport : ConnectBefore(r)
  \/ InitBuffers
  \/ Calibrate
  \/ \E n \in 1..MaxSlice : Update(n)
  \/ \E r \in 1..MaxRport, rel \in 0..MaxRel, w \in Weights : HandleSpike(r, rel, w)

SpecSyn == InitSyn /\ [][NextSyn]_vars

\* the node has had one spike event, of weight 1, and no other input
OneUnitSpike == Len(K.events) = 1 /\ K.events[1].rport > 0 /\ K.events[1].w = SCALE

\* the stages of every receptor before step i of the log
StagesBefore(i) ==
  IF i = 1 THEN [y1 |-> [r \in 1..n_receptors_(P) |-> 0],
                 y2 |-> [r \in 1..n_receptors_(P) |-> 0]]
  ELSE [y1 |-> log[i - 1].y1, y2 |-> log[i - 1].y2]

\* C10: with one spike event of weight 1 on receptor r for step d and no
\* other input, the stages of r, I_syn and the synaptic term of the potential
\* are zero in every step before d, the first stage of r is nonzero at step
\* d, after d the stages follow y2 <- P21 y1 + P22 y2, y1 <- P11 y1, and the
\* stages of the other receptors are zero throughout
C10_SingleSpikeResponse ==
  OneUnitSpike =>
    \A i \in 1..Len(log) :
      /\ \A r \in 1..n_receptors_(P) :
           /\ (r /= K.events[1].rport \/ log[i].step < K.events[1].step)
                => (log[i].y1[r] = 0 /\ log[i].y2[r] = 0)
           /\ (r = K.events[1].rport /\ log[i].step = K.events[1].step)
                => /\ log[i].y1[r] = Scaled(SCALE, V.PSCInitialValues_[r])
                   /\ log[i].y1[r] /= 0
                   /\ log[i].y2[r] = 0
           /\ (r = K.events[1].rport /\ log[i].step > K.events[1].step)
                => /\ log[i].y2[r] = Scaled(StagesBefore(i).y1[r], V.P21_[r])
                                       + Scaled(StagesBefore(i).y2[r], V.P22_[r])
                   /\ log[i].y1[r] = Scaled(StagesBefore(i).y1[r], V.P11_[r])
      /\ log[i].step <= K.events[1].step
           => (log[i].I_syn = 0 /\ log[i].syn = 0 /\ log[i].U = 0)
      /\ log[i].I_syn = SumSeq(StagesBefore(i).y2)
      /\ log[i].syn =
           SumSeq([r \in 1..n_receptors_(P) |->
                     Scaled(StagesBefore(i).y1[r], V.P31_[r])
                       + Scaled(StagesBefore(i).y2[r], V.P32_[r])])

\* the spike was for a later step of a node already running, and its current
\* has reached the potential
C10_Witness ==
  /\ OneUnitSpike
  /\ K.events[1].step > 0
  /\ Len(log) >= K.events[1].step + 3
  /\ log[Len(log)].I_syn /= 0
  /\ log[Len(log)].syn /= 0
  /\ log[Len(log)].y1[K.events[1].rport] /= 0

----------------------------------------------------------------------------
(* A node driven by spikes and currents, under SpecIn *)

\* the variants with a fixed and with an affine reset
InModels == {"lif", "lif_r_asc"}

\* a node with connections on both of its receptor ports, not yet prepared
InitIn ==
  \E m \in InModels :
    /\ P = [Prototype(m, 3 * SCALE) EXCEPT !.has_connections_ = TRUE]
    /\ \E mem \in Unset :
         /\ S = State_(Parameters_, mem)
         /\ V = Variables_(mem)
    /\ B = Buffers0
    /\ K = [Kernel0 EXCEPT !.ports = {1, 2}]
    /\ call = NoCall
    /\ log = <<>>

NextIn ==
  \/ InitBuffers
  \/ Calibrate
  \/ \E n \in 1..MaxSlice : Update(n)
  \/ \E r \in 1..MaxRport, rel \in 0..MaxRel, w \in Weights : HandleSpike(r, rel, w)
  \/ \E rel \in 0..MaxRel, c \in Currents : HandleCurrent(rel, c)

SpecIn == InitIn /\ [][NextIn]_vars

\* the sum of what the events handled so far carry for port rport (0: the
\* current events) and step t
EventsFor(rport, t) ==
  SumSeq([j \in 1..Len(K.events) |->
            IF K.events[j].rport = rport /\ K.events[j].step = t
            THEN K.events[j].w ELSE 0])

\* step t has been executed to its end
Consumed(t) == \E i \in 1..Len(log) : log[i].step = t /\ ~log[i].failed

\* C11: every step that update executes to its end, refractory or not and
\* spiking or not, reads and clears the slot of that step in the buffer of
\* every receptor and in the buffer of currents; what it reads from a
\* receptor is added to the first stage of that receptor, also while the
\* node is refractory, and what it reads of current is kept in I_
C11_EveryStepConsumes ==
  \A i \in 1..Len(log) :
    ~log[i].failed =>
      /\ \A r \in 1..n_receptors_(P) :
           /\ B.spikes_[r][log[i].step] = 0
           /\ log[i].y1[r] = Scaled(log[i].before.S.y1_[r], V.P11_[r])
                               + Scaled(log[i].in[r], V.PSCInitialValues_[r])
           /\ log[i].in[r] = EventsFor(r, log[i].step)
      /\ B.currents_[log[i].step] = 0
      /\ log[i].I = EventsFor(0, log[i].step)

\* a spike event read in a step of the refractory period that follows a
\* spike of the node
C11_Witness ==
  \E i, j \in 1..Len(log) :
    /\ j < i
    /\ Spiked(log[j])
    /\ log[i].refractory /\ ~log[i].exit
    /\ \E r \in 1..n_receptors_(P) : log[i].in[r] /= 0 /\ log[i].y1[r] /= 0

\* C12: what update reads for a receptor at a step is the sum of weight x
\* multiplicity over the spike events handled for that receptor and step,
\* and likewise of weight x current for the current events; a slot not yet
\* read holds that sum, a slot that was read holds zero, and no event
\* reaches another step or another receptor
C12_ConsumedIsSumOfEvents ==
  /\ \A i \in 1..Len(log) :
       ~log[i].failed =>
         /\ \A r \in 1..n_receptors_(P) :
              log[i].in[r] = EventsFor(r, log[i].step)
         /\ log[i].I = EventsFor(0, log[i].step)
  /\ \A t \in 0..Horizon :
       /\ \A r \in 1..Len(B.spikes_) :
            B.spikes_[r][t] = IF Consumed(t) THEN 0 ELSE EventsFor(r, t)
       /\ K.buffers_initialized =>
            B.currents_[t] = IF Consumed(t) THEN 0 ELSE EventsFor(0, t)

\* two spike events for one receptor and one step, read as their sum
C12_Witness ==
  \E i \in 1..Len(log) : \E r \in 1..n_receptors_(P) :
    /\ Len(K.events) = 2
    /\ K.events[1].rport = r /\ K.events[2].rport = r
    /\ K.events[1].step = log[i].step /\ K.events[2].step = log[i].step
    /\ log[i].in[r] = 2 * SCALE
    /\ log[i].y1[r] /= 0

----------------------------------------------------------------------------
(* A node whose receptor ports are changed between runs, under SpecPorts *)

\* updates of tau_syn to one, two and three receptor ports
PortDicts ==
  {Def(EmptyDict, "tau_syn", Vec(v)) :
     v \in {<<1000>>, <<2000, 3000>>, <<2000, 3000, 500>>}}

NextPorts ==
  \/ \E d \in PortDicts : SetStatus(d)
  \/ InitBuffers
  \/ Calibrate
  \/ \E n \in 1..MaxSlice : Update(n)
  \/ \E c \in Currents : HandleCurrent(0, c)

SpecPorts == Init /\ [][NextPorts]_vars

\* the per-receptor arrays of V_, S_ and B_ all have n entries
ArraysHave(n, v, s, b) ==
  /\ Len(v.P11_) = n /\ Len(v.P21_) = n /\ Len(v.P22_) = n
  /\ Len(v.P31_) = n /\ Len(v.P32_) = n /\ Len(v.PSCInitialValues_) = n
  /\ Len(s.y1_) = n /\ Len(s.y2_) = n
  /\ Len(b.spikes_) = n

\* C15: after a set_status that changes the number of receptor ports no
\* step of update runs before calibrate has run; whenever update can run,
\* and in every step it has run, P11, P21, P22, P31, P32, PSCInitialValues,
\* y1, y2 and spikes_ have n_receptors_() entries
C15_ArraysMatchPorts ==
  /\ (call.op = "set_status" /\ n_receptors_(P) /= n_receptors_(call.P0))
       => K.run = "idle"
  /\ K.run /= "idle" => ArraysHave(n_receptors_(P), V, S, B)
  /\ \A i \in 1..Len(log) :
       /\ ArraysHave(Len(log[i].in), log[i].before.V, log[i].before.S,
                     [spikes_ |-> log[i].in])
       /\ Len(log[i].y1) = Len(log[i].in)
       /\ Len(log[i].y2) = Len(log[i].in)

\* steps run with one port and, after a set_status and a calibrate, with more
C15_Witness ==
  /\ Len(log) >= 2
  /\ Len(log[1].in) = 1
  /\ Len(log[Len(log)].in) > 1
  /\ K.nset > 0

----------------------------------------------------------------------------
(* Claims on what calibrate and the refractory steps leave alone, under Spec *)

\* C16 as stated: the membrane potential, the after-spike currents, the
\* remaining refractory time and the spike and voltage components of the
\* threshold are changed by update only, so that at any time they are what
\* the last step of update left, calibrate or not
C16_OnlyUpdateChangesDynamics ==
  Len(log) > 0 =>
    /\ S.U_ = log[Len(log)].after.S.U_
    /\ S.ASCurrents_ = log[Len(log)].after.S.ASCurrents_
    /\ V.t_ref_remaining_ = log[Len(log)].after.V.t_ref_remaining_
    /\ V.last_spike_ = log[Len(log)].after.V.last_spike_
    /\ V.last_voltage_ = log[Len(log)].after.V.last_voltage_

\* the refractory step i does not end the refractory period
Holding(i) == log[i].refractory /\ ~log[i].exit

\* C20: a refractory step that does not end the refractory period leaves
\* S_ and V_ as it found them but for the remaining refractory time, the
\* spike component of the threshold, the stages of the synapses and the
\* current I_; the potential, the after-spike currents and the threshold
\* are those of the step that sent the spike
C20_RefractoryStepHolds ==
  \A i \in 1..Len(log) :
    Holding(i) =>
      /\ log[i].after.S =
           [log[i].before.S EXCEPT !.y1_ = log[i].after.S.y1_,
                                   !.y2_ = log[i].after.S.y2_,
                                   !.I_ = log[i].after.S.I_]
      /\ log[i].after.V =
           [log[i].before.V EXCEPT
              !.t_ref_remaining_ = log[i].before.V.t_ref_remaining_ - log[i].dt,
              !.last_spike_ = log[i].after.V.last_spike_]
      /\ \E j \in 1..(i - 1) :
           /\ Spiked(log[j])
           /\ \A k \in (j + 1)..i : log[k].refractory
           /\ log[i].U = log[j].U
           /\ log[i].after.S.ASCurrents_ = log[j].after.S.ASCurrents_
           /\ log[i].threshold = log[j].threshold

\* a step of the refractory period of a node with after-spike currents and
\* a voltage component, in which a current was read
C20_Witness ==
  \E i \in 1..Len(log) :
    /\ Holding(i)
    /\ P.glif_model_ = "lif_r_asc_a"
    /\ log[i].after.S.I_ /= log[i].before.S.I_
    /\ log[i].after.V.last_voltage_ /= 0
    /\ log[i].U > log[i].threshold

----------------------------------------------------------------------------
(* The topology test test_reg_mask_grid_anchor_06: two 5 x 5 layers joined *)
(* by a divergent connection with a 3 x 3 grid mask anchored at (1, 1).    *)
(* Lengths are in units of 1/SCALE, as are weight and delay.               *)

\* /layer: 5 rows, 5 columns, extent 1.25 x 1.25 about (0, 0), no edge wrap
layer ==
  [ rows |-> 5, columns |-> 5, extent |-> <<1250, 1250>>, center |-> <<0, 0>>,
    edge_wrap |-> FALSE ]

\* the mask anchored at its upper left cell
mask_unanchored == [rows |-> 3, columns |-> 3, anchor |-> [row |-> 0, column |-> 0]]

\* /mask of /conns
mask == [rows |-> 3, columns |-> 3, anchor |-> [row |-> 1, column |-> 1]]

\* gid of the node at (row, column) of the layer whose own gid is l: the
\* nodes follow the layer, column by column
Gid(l, row, column) == l + 1 + column * layer.rows + row

\* the gids of the two layers: the sources are created first
sources == 1

targets == sources + layer.rows * layer.columns + 1

\* position of the node at (row, column): x grows with the column, y falls
\* with the row
Position(row, column) ==
  << layer.center[1] - layer.extent[1] \div 2
       + (layer.extent[1] \div layer.columns) \div 2
       + column * (layer.extent[1] \div layer.columns),
     layer.center[2] + layer.extent[2] \div 2
       - (layer.extent[2] \div layer.rows) \div 2
       - row * (layer.extent[2] \div layer.rows) >>

\* /conn_ref: source, target, weight, delay, displacement x and y
conn_ref ==
  << <<2, 28, 1000, 1000, 0, 0>>, <<2, 29, 1000, 1000, 0, -250>>,
     <<2, 33, 1000, 1000, 250, 0>>, <<2, 34, 1000, 1000, 250, -250>>,
     <<3, 28, 1000, 1000, 0, 250>>, <<3, 29, 1000, 1000, 0, 0>>,
     <<3, 30, 1000, 1000, 0, -250>>, <<3, 33, 1000, 1000, 250, 250>>,
     <<3, 34, 1000, 1000, 250, 0>>, <<3, 35, 1000, 1000, 250, -250>>,
     <<4, 29, 1000, 1000, 0, 250>>, <<4, 30, 1000, 1000, 0, 0>>,
     <<4, 31, 1000, 1000, 0, -250>>, <<4, 34, 1000, 1000, 250, 250>>,
     <<4, 35, 1000, 1000, 250, 0>>, <<4, 36, 1000, 1000, 250, -250>>,
     <<5, 30, 1000, 1000, 0, 250>>, <<5, 31, 1000, 1000, 0, 0>>,
     <<5, 32, 1000, 1000, 0, -250>>, <<5, 35, 1000, 1000, 250, 250>>,
     <<5, 36, 1000, 1000, 250, 0>>, <<5, 37, 1000, 1000, 250, -250>>,
     <<6, 31, 1000, 1000, 0, 250>>, <<6, 32, 1000, 1000, 0, 0>>,
     <<6, 36, 1000, 1000, 250, 250>>, <<6, 37, 1000, 1000, 250, 0>>,
     <<7, 28, 1000, 1000, -250, 0>>, <<7, 29, 1000, 1000, -250, -250>>,
     <<7, 33, 1000, 1000, 0, 0>>, <<7, 34, 1000, 1000, 0, -250>>,
     <<7, 38, 1000, 1000, 250, 0>>, <<7, 39, 1000, 1000, 250, -250>>,
     <<8, 28, 1000, 1000, -250, 250>>, <<8, 29, 1000, 1000, -250, 0>>,
     <<8, 30, 1000, 1000, -250, -250>>, <<8, 33, 1000, 1000, 0, 250>>,
     <<8, 34, 1000, 1000, 0, 0>>, <<8, 35, 1000, 1000, 0, -250>>,
     <<8, 38, 1000, 1000, 250, 250>>, <<8, 39, 1000, 1000, 250, 0>>,
     <<8, 40, 1000, 1000, 250, -250>>, <<9, 29, 1000, 1000, -250, 250>>,
     <<9, 30, 1000, 1000, -250, 0>>, <<9, 31, 1000, 1000, -250, -250>>,
     <<9, 34, 1000, 1000, 0, 250>>, <<9, 35, 1000, 1000, 0, 0>>,
     <<9, 36, 1000, 1000, 0, -250>>, <<9, 39, 1000, 1000, 250, 250>>,
     <<9, 40, 1000, 1000, 250, 0>>, <<9, 41, 1000, 1000, 250, -250>>,
     <<10, 30, 1000, 1000, -250, 250>>, <<10, 31, 1000, 1000, -250, 0>>,
     <<10, 32, 1000, 1000, -250, -250>>, <<10, 35, 1000, 1000, 0, 250>>,
     <<10, 36, 1000, 1000, 0, 0>>, <<10, 37, 1000, 1000, 0, -250>>,
     <<10, 40, 1000, 1000, 250, 250>>, <<10, 41, 1000, 1000, 250, 0>>,
     <<10, 42, 1000, 1000, 250, -250>>, <<11, 31, 1000, 1000, -250, 250>>,
     <<11, 32, 1000, 1000, -250, 0>>, <<11, 36, 1000, 1000, 0, 250>>,
     <<11, 37, 1000, 1000, 0, 0>>, <<11, 41, 1000, 1000, 250, 250>>,
     <<11, 42, 1000, 1000, 250, 0>>, <<12, 33, 1000, 1000, -250, 0>>,
     <<12, 34, 1000, 1000, -250, -250>>, <<12, 38, 1000, 1000, 0, 0>>,
     <<12, 39, 1000, 1000, 0, -250>>, <<12, 43, 1000, 1000, 250, 0>>,
     <<12, 44, 1000, 1000, 250, -250>>, <<13, 33, 1000, 1000, -250, 250>>,
     <<13, 34, 1000, 1000, -250, 0>>, <<13, 35, 1000, 1000, -250, -250>>,
     <<13, 38, 1000, 1000, 0, 250>>, <<13, 39, 1000, 1000, 0, 0>>,
     <<13, 40, 1000, 1000, 0, -250>>, <<13, 43, 1000, 1000, 250, 250>>,
     <<13, 44, 1000, 1000, 250, 0>>, <<13, 45, 1000, 1000, 250, -250>>,
     <<14, 34, 1000, 1000, -250, 250>>, <<14, 35, 1000, 1000, -250, 0>>,
     <<14, 36, 1000, 1000, -250, -250>>, <<14, 39, 1000, 1000, 0, 250>>,
     <<14, 40, 1000, 1000, 0, 0>>, <<14, 41, 1000, 1000, 0, -250>>,
     <<14, 44, 1000, 1000, 250, 250>>, <<14, 45, 1000, 1000, 250, 0>>,
     <<14, 46, 1000, 1000, 250, -250>>, <<15, 35, 1000, 1000, -250, 250>>,
     <<15, 36, 1000, 1000, -250, 0>>, <<15, 37, 1000, 1000, -250, -250>>,
     <<15, 40, 1000, 1000, 0, 250>>, <<15, 41, 1000, 1000, 0, 0>>,
     <<15, 42, 1000, 1000, 0, -250>>, <<15, 45, 1000, 1000, 250, 250>>,
     <<15, 46, 1000, 1000, 250, 0>>, <<15, 47, 1000, 1000, 250, -250>>,
     <<16, 36, 1000, 1000, -250, 250>>, <<16, 37, 1000, 1000, -250, 0>>,
     <<16, 41, 1000, 1000, 0, 250>>, <<16, 42, 1000, 1000, 0, 0>>,
     <<16, 46, 1000, 1000, 250, 250>>, <<16, 47, 1000, 1000, 250, 0>>,
     <<17, 38, 1000, 1000, -250, 0>>, <<17, 39, 1000, 1000, -250, -250>>,
     <<17, 43, 1000, 1000, 0, 0>>, <<17, 44, 1000, 1000, 0, -250>>,
     <<17, 48, 1000, 1000, 250, 0>>, <<17, 49, 1000, 1000, 250, -250>>,
     <<18, 38, 1000, 1000, -250, 250>>, <<18, 39, 1000, 1000, -250, 0>>,
     <<18, 40, 1000, 1000, -250, -250>>, <<18, 43, 1000, 1000, 0, 250>>,
     <<18, 44, 1000, 1000, 0, 0>>, <<18, 45, 1000, 1000, 0, -250>>,
     <<18, 48, 1000, 1000, 250, 250>>, <<18, 49, 1000, 1000, 250, 0>>,
     <<18, 50, 1000, 1000, 250, -250>>, <<19, 39, 1000, 1000, -250, 250>>,
     <<19, 40, 1000, 1000, -250, 0>>, <<19, 41, 1000, 1000, -250, -250>>,
     <<19, 44, 1000, 1000, 0, 250>>, <<19, 45, 1000, 1000, 0, 0>>,
     <<19, 46, 1000, 1000, 0, -250>>, <<19, 49, 1000, 1000, 250, 250>>,
     <<19, 50, 1000, 1000, 250, 0>>, <<19, 51, 1000, 1000, 250, -250>>,
     <<20, 40, 1000, 1000, -250, 250>>, <<20, 41, 1000, 1000, -250, 0>>,
     <<20, 42, 1000, 1000, -250, -250>>, <<20, 45, 1000, 1000, 0, 250>>,
     <<20, 46, 1000, 1000, 0, 0>>, <<20, 47, 1000, 1000, 0, -250>>,
     <<20, 50, 1000, 1000, 250, 250>>, <<20, 51, 1000, 1000, 250, 0>>,
     <<20, 52, 1000, 1000, 250, -250>>, <<21, 41, 1000, 1000, -250, 250>>,
     <<21, 42, 1000, 1000, -250, 0>>, <<21, 46, 1000, 1000, 0, 250>>,
     <<21, 47, 1000, 1000, 0, 0>>, <<21, 51, 1000, 1000, 250, 250>>,
     <<21, 52, 1000, 1000, 250, 0>>, <<22, 43, 1000, 1000, -250, 0>>,
     <<22, 44, 1000, 1000, -250, -250>>, <<22, 48, 1000, 1000, 0, 0>>,
     <<22, 49, 1000, 1000, 0, -250>>, <<23, 43, 1000, 1000, -250, 250>>,
     <<23, 44, 1000, 1000, -250, 0>>, <<23, 45, 1000, 1000, -250, -250>>,
     <<23, 48, 1000, 1000, 0, 250>>, <<23, 49, 1000, 1000, 0, 0>>,
     <<23, 50, 1000, 1000, 0, -250>>, <<24, 44, 1000, 1000, -250, 250>>,
     <<24, 45, 1000, 1000, -250, 0>>, <<24, 46, 1000, 1000, -250, -250>>,
     <<24, 49, 1000, 1000, 0, 250>>, <<24, 50, 1000, 1000, 0, 0>>,
     <<24, 51, 1000, 1000, 0, -250>>, <<25, 45, 1000, 1000, -250, 250>>,
     <<25, 46, 1000, 1000, -250, 0>>, <<25, 47, 1000, 1000, -250, -250>>,
     <<25, 50, 1000, 1000, 0, 250>>, <<25, 51, 1000, 1000, 0, 0>>,
     <<25, 52, 1000, 1000, 0, -250>>, <<26, 46, 1000, 1000, -250, 250>>,
     <<26, 47, 1000, 1000, -250, 0>>, <<26, 51, 1000, 1000, 0, 250>>,
     <<26, 52, 1000, 1000, 0, 0>> >>

\* the cells of the mask in the order in which their targets are dumped:
\* column by column
Cells == mask.rows * mask.columns

CellRow(k) == (k % mask.rows) - mask.anchor.row

CellColumn(k) == (k \div mask.rows) - mask.anchor.column

InLayer(row, column) ==
  /\ 0 <= row /\ row < layer.rows
  /\ 0 <= column /\ column < layer.columns

\* the connection from the source at (r, c) to the target under cell k
Connection(r, c, k) ==
  << Gid(sources, r, c), Gid(targets, r + CellRow(k), c + CellColumn(k)),
     SCALE, SCALE,
     Position(r + CellRow(k), c + CellColumn(k))[1] - Position(r, c)[1],
     Position(r + CellRow(k), c + CellColumn(k))[2] - Position(r, c)[2] >>

\* K.source counts the sources done, column by column; K.cell the cells of
\* the mask done for the source in hand; log is the list of connections
InitGrid ==
  /\ P = Parameters_
  /\ \E mem \in Unset :
       /\ S = State_(Parameters_, mem)
       /\ V = Variables_(mem)
  /\ B = Buffers0
  /\ K = [source |-> 0, cell |-> 0]
  /\ call = NoCall
  /\ log = <<>>

SourceRow == K.source % layer.rows

SourceColumn == K.source \div layer.rows

Advance ==
  K' = IF K.cell + 1 = Cells THEN [source |-> K.source + 1, cell |-> 0]
       ELSE [K EXCEPT !.cell = @ + 1]

\* ConnectLayers, divergent: the target under the next cell of the mask lies
\* in the layer and is connected
ConnectTarget ==
  /\ K.source < layer.rows * layer.columns
  /\ InLayer(SourceRow + CellRow(K.cell), SourceColumn + CellColumn(K.cell))
  /\ log' = Append(log, Connection(SourceRow, SourceColumn, K.cell))
  /\ Advance
  /\ UNCHANGED <<P, S, V, B, call>>

\* the cell lies outside the layer, which has no edge wrap
SkipCell ==
  /\ K.source < layer.rows * layer.columns
  /\ ~InLayer(SourceRow + CellRow(K.cell), SourceColumn + CellColumn(K.cell))
  /\ Advance
  /\ UNCHANGED <<P, S, V, B, call, log>>

NextGrid == ConnectTarget \/ SkipCell

SpecGrid == InitGrid /\ [][NextGrid]_vars

\* the connections of the source with gid g, in the list q
From(g, q) == {i \in 1..Len(q) : q[i][1] = g}

\* the sources at (r, c) done so far
Done(r, c) == c * layer.rows + r < K.source

\* the number of rows or columns of the mask that fit at position x of n
Fit(x, n) == IF x = 0 \/ x = n - 1 THEN 2 ELSE 3

\* C19: the connections made are those of conn_ref, in its order: for each
\* source at (r, c) the targets at (r + dr, c + dc), dr and dc in -1..1,
\* that lie in the layer, 4 for a corner, 6 for an edge and 9 for an inner
\* source, 169 in all, each with weight 1, delay 1 and the displacement
\* from the source to the target
C19_GridMaskConnections ==
  /\ Len(log) <= Len(conn_ref)
  /\ log = SubSeq(conn_ref, 1, Len(log))
  /\ \A r \in 0..(layer.rows - 1), c \in 0..(layer.columns - 1) :
       Done(r, c) =>
         /\ Cardinality(From(Gid(sources, r, c), log))
              = Fit(r, layer.rows) * Fit(c, layer.columns)
         /\ {log[i][2] : i \in From(Gid(sources, r, c), log)}
              = {Gid(targets, r + dr, c + dc) :
                   dr \in {x \in -1..1 : InLayer(r + x, c)},
                   dc \in {x \in -1..1 : InLayer(r, c + x)}}
         /\ \A i \in From(Gid(sources, r, c), conn_ref) : i <= Len(log)
  /\ \A i \in 1..Len(log) :
       /\ log[i][3] = SCALE
       /\ log[i][4] = SCALE
  /\ K.source = layer.rows * layer.columns =>
       (Len(log) = 169 /\ log = conn_ref)

\* every source has been connected
C19_Witness ==
  /\ K.source = layer.rows * layer.columns
  /\ Len(log) = 169
  /\ Cardinality(From(Gid(sources, 2, 2), log)) = 9
  /\ Cardinality(From(Gid(sources, 0, 0), log)) = 4
  /\ Cardinality(From(Gid(sources, 0, 2), log)) = 6

----------------------------------------------------------------------------
(* Two nodes, each connected to port 1 of the other, updated by two threads *)
(* in slices of min_delay steps, under SpecTwo.  P, S, V, B and log hold   *)
(* one value per node; call holds, per node, the position of its thread in *)
(* the loop of update and the locals of that call of update.               *)

Nodes == {1, 2}

Other(n) == 3 - n

\* the variants of the two nodes
ModelPairs ==
  {<<"lif", "lif_r_asc_a">>, <<"lif_asc", "lif">>, <<"lif_r", "lif_r_asc">>}

\* delay of the two connections and min_delay, in steps: the kernel cuts the
\* run into slices of min_delay steps, the least delay of any connection
Delays == {[delay |-> d, min_delay |-> md] : d \in 1..MaxRel, md \in 1..MaxSlice}

\* the steps for which a current event of 2000 pA is in the buffer of each
\* node when the run starts
Drives == {<<{0}, {}>>, <<{0}, {1}>>, <<{0, 3}, {0}>>}

\* a node of variant m made in memory that held mem, prepared, with the
\* current events of drive
Prepared(m, drive, mem) ==
  LET p == [Prototype(m, 3 * SCALE) EXCEPT !.has_connections_ = TRUE]
      c == calibrate(p, State_(Parameters_, mem), Variables_(mem),
                     init_buffers_(Buffers0), SCALE)
  IN [ P |-> p, S |-> c.S, V |-> c.V,
       B |-> [c.B EXCEPT !.currents_ =
                [t \in 0..Horizon |-> IF t \in drive THEN 2000 * SCALE ELSE 0]] ]

InitTwo ==
  \E mp \in ModelPairs, dl \in Delays, dr \in Drives, mem \in [1..2 -> Unset] :
    /\ dl.min_delay <= dl.delay
    /\ P = [n \in 1..2 |-> Prepared(mp[n], dr[n], mem[n]).P]
    /\ S = [n \in 1..2 |-> Prepared(mp[n], dr[n], mem[n]).S]
    /\ V = [n \in 1..2 |-> Prepared(mp[n], dr[n], mem[n]).V]
    /\ B = [n \in 1..2 |-> Prepared(mp[n], dr[n], mem[n]).B]
    /\ log = <<<<>>, <<>>>>
    /\ call = [n \in 1..2 |-> [lag |-> dl.min_delay, loc |-> Locals(S[n])]]
    /\ K = [ dt |-> SCALE, origin |-> 0, delay |-> dl.delay,
             min_delay |-> dl.min_delay, phase |-> "deliver", aborted |-> FALSE,
             pending |-> <<>>, events |-> <<>>,
             start |-> [S |-> S, V |-> V, B |-> B, log |-> log] ]

\* Event::get_rel_delivery_steps: the steps from the slice origin to the
\* delivery of an event stamped stamp
get_rel_delivery_steps(stamp, delay, origin) == delay + stamp - 1 - origin

\* the spike added to the slot of the slice origin, whatever its delay
handle_at_origin(b, rport, rel, w, origin) ==
  [b EXCEPT !.spikes_[rport] = add_value(@, origin, w)]

\* lines 570-578: handle( SpikeEvent& ), rport = e.get_rport(), rel =
\* e.get_rel_delivery_steps( slice origin ), w = weight * multiplicity
handle(b, rport, rel, w, origin) ==
  [b EXCEPT !.spikes_[rport] = add_value(@, origin + rel, w)]

\* B_ of node n after the spikes in q, those sent by the other node, have
\* been handled
RECURSIVE Delivered(_, _, _)
Delivered(b, n, q) ==
  IF q = <<>> THEN b
  ELSE Delivered(IF Head(q).from = Other(n)
                 THEN handle(b, 1,
                             get_rel_delivery_steps(Head(q).stamp, K.delay,
                                                    K.origin),
                             SCALE, K.origin)
                 ELSE b,
                 n, Tail(q))

\* the kernel at the start of a slice: the spikes sent in the slice before
\* are delivered, then a call of update starts on every node
StartSlice ==
  /\ K.phase = "deliver"
  /\ ~K.aborted
  /\ K.origin + K.min_delay <= MaxSteps
  /\ B' = [n \in 1..2 |-> Delivered(B[n], n, K.pending)]
  /\ call' = [n \in 1..2 |-> [lag |-> 0, loc |-> Locals(S[n])]]
  /\ K' = [K EXCEPT !.phase = "update", !.pending = <<>>,
                    !.events = @ \o [i \in 1..Len(K.pending) |->
                                       [ to |-> Other(K.pending[i].from),
                                         sent |-> K.pending[i].stamp - 1,
                                         w |-> SCALE ]],
                    !.start = [S |-> S, V |-> V, B |-> B', log |-> log]]
  /\ UNCHANGED <<P, S, V, log>>

\* the locals of the call of update running on node n, all on one thread
ThreadLocals_shared(c, n) == c[1].loc

\* the locals of the call of update running on node n
ThreadLocals(c, n) == c[n].loc

\* node n as its thread finds it
Thread(n) ==
  [ S |-> S[n], V |-> V[n], B |-> B[n], loc |-> ThreadLocals(call, n),
    log |-> log[n], aborted |-> FALSE ]

\* the spikes that the last step of log lg sent, as the kernel keeps them
\* for delivery: the stamp is the end of the step (line 520)
Sent(n, lg) ==
  [i \in 1..Len(lg[Len(lg)].sent) |->
     [from |-> n, stamp |-> lg[Len(lg)].step + 1,
      offset |-> lg[Len(lg)].sent[i].offset]]

\* the thread of node n runs one pass of the loop of update
StepOf(n) ==
  /\ K.phase = "update"
  /\ ~K.aborted
  /\ call[n].lag < K.min_delay
  /\ LET m == Step(P[n], Thread(n), K.dt, K.origin + call[n].lag)
     IN /\ S' = [S EXCEPT ![n] = m.S]
        /\ V' = [V EXCEPT ![n] = m.V]
        /\ B' = [B EXCEPT ![n] = m.B]
        /\ log' = [log EXCEPT ![n] = m.log]
        /\ call' = [call EXCEPT ![n] = [lag |-> call[n].lag + 1, loc |-> m.loc]]
        /\ K' = [K EXCEPT !.aborted = m.aborted,
                          !.pending = @ \o Sent(n, m.log)]
  /\ UNCHANGED P

\* both calls of update have returned: the slice origin moves on
EndSlice ==
  /\ K.phase = "update"
  /\ ~K.aborted
  /\ \A n \in Nodes : call[n].lag = K.min_delay
  /\ K' = [K EXCEPT !.phase = "deliver", !.origin = @ + K.min_delay]
  /\ UNCHANGED <<P, S, V, B, call, log>>

NextTwo ==
  \/ StartSlice
  \/ \E n \in Nodes : StepOf(n)
  \/ EndSlice

SpecTwo == InitTwo /\ [][NextTwo]_vars

\* the slice so far as update alone would have run it on node n, from what
\* the node was when the slice started
Alone(n) ==
  update(P[n], K.start.S[n], K.start.V[n], K.start.B[n], K.start.log[n],
         K.dt, IF K.phase = "update" THEN K.origin ELSE K.origin - K.min_delay,
         (IF K.phase = "update" THEN K.origin ELSE K.origin - K.min_delay)
           + call[n].lag)

\* C17: whatever the interleaving of the steps of the two threads, each node
\* is at every moment, and so when both calls have returned, in the state
\* that update run alone on that node over the same steps gives: the same
\* S_, V_ and B_ and the same steps recorded, with the same spikes and
\* offsets
C17_InterleavingIsSequential ==
  (Len(log[1]) + Len(log[2]) > 0 /\ ~K.aborted) =>
    \A n \in Nodes :
      /\ S[n] = Alone(n).S
      /\ V[n] = Alone(n).V
      /\ B[n] = Alone(n).B
      /\ log[n] = Alone(n).log
      /\ call[n].loc = Alone(n).loc

\* both calls of update have returned from a slice of more than one step,
\* both nodes have spiked, and node 2 has read a spike of node 1
C17_Witness ==
  /\ \E i \in 1..Len(log[1]) : Spiked(log[1][i])
  /\ \E i \in 1..Len(log[2]) : Spiked(log[2][i])
  /\ \E i \in 1..Len(log[2]) : log[2][i].in[1] /= 0
  /\ K.phase = "update"
  /\ call[1].lag = K.min_delay
  /\ call[2].lag = K.min_delay
  /\ K.min_delay > 1

\* the sum of the weights of the spikes that node n sent in step t
SpikesOf(n, t) ==
  SumSeq([i \in 1..Len(log[n]) |->
            IF log[n][i].step = t THEN Len(log[n][i].sent) * SCALE ELSE 0])

\* C18: a spike that a node sends in step N reaches the other node through
\* handle alone, delay >= 1 steps later: what a node reads for port 1 at
\* step s is the weight of the spikes the other node sent in step
\* s - delay, every one of which was handled before step s ran, and a spike
\* not yet handled is for a step that has not run
C18_SpikesArriveAfterDelay ==
  /\ K.delay >= 1
  /\ \A n \in Nodes :
       \A i \in 1..Len(log[n]) :
         ~log[n][i].failed =>
           /\ log[n][i].in[1] = SpikesOf(Other(n), log[n][i].step - K.delay)
           /\ log[n][i].in[2] = 0
  /\ \A i \in 1..Len(K.pending) :
       \A j \in 1..Len(log[Other(K.pending[i].from)]) :
         log[Other(K.pending[i].from)][j].step
           < K.pending[i].stamp - 1 + K.delay

\* a spike sent by node 1 was read by node 2 two steps later, in a slice of
\* two steps, and node 2 had run steps in between
C18_Witness ==
  /\ K.delay = 2
  /\ K.min_delay = 2
  /\ \E i \in 1..Len(log[1]) :
       /\ Spiked(log[1][i])
       /\ \E j \in 1..Len(log[2]) :
            /\ log[2][j].step = log[1][i].step + 2
            /\ log[2][j].in[1] = SCALE
            /\ log[2][j].y1[1] /= 0

----------------------------------------------------------------------------
(* The five variants with a refractory period of one step, under SpecVar: *)
(* a node can spike twice, and leave the refractory period twice, within  *)
(* the steps of a behaviour.                                              *)

InitVar ==
  \E m \in Models :
    /\ P = Prototype(m, SCALE)
    /\ \E mem \in Unset :
         /\ S = State_(Parameters_, mem)
         /\ V = Variables_(mem)
    /\ B = Buffers0
    /\ K = Kernel0
    /\ call = NoCall
    /\ log = <<>>

SpecVar == InitVar /\ [][Next]_vars

\* the step of record e computed the threshold anew
Recomputed(e) == ~e.refractory \/ (e.exit /\ HasR(model_type(P)))

\* C21: every step that integrates, and every step that leaves the
\* refractory period in a variant with "R", leaves threshold_ = th_inf_ +
\* last_spike_ + last_voltage_; on leaving the refractory period last_spike_
\* is what the step found, decayed over the step, plus a_spike_
C21_ThresholdIsSumOfComponents ==
  \A i \in 1..Len(log) :
    Recomputed(log[i]) =>
      /\ log[i].after.S.threshold_
           = P.th_inf_ + log[i].after.V.last_spike_
               + log[i].after.V.last_voltage_
      /\ log[i].threshold = log[i].after.S.threshold_
      /\ (log[i].exit /\ HasR(model_type(P))) =>
           log[i].after.V.last_spike_
             = Scaled(log[i].before.V.last_spike_,
                      ExpNeg(P.b_spike_ * log[i].dt)) + P.a_spike_

\* a node with "R" and "A" leaves its second refractory period, its spike
\* component not zero when the step starts, and has integrated with a spike
\* component and a voltage component that are not zero
C21_Witness ==
  /\ \E i \in 1..Len(log) :
       /\ log[i].exit
       /\ ~log[i].failed
       /\ HasR(model_type(P))
       /\ log[i].before.V.last_spike_ /= 0
  /\ \E i \in 1..Len(log) :
       /\ ~log[i].refractory
       /\ log[i].after.V.last_voltage_ /= 0
       /\ log[i].after.V.last_spike_ /= 0

\* C22: what a variant does not have stays out of its steps.  Without "ASC"
\* (variants 1, 2) a step leaves ASCurrents_ as it found them and an integrating step adds
\* nothing for them to the potential; without "R" (1, 3) last_spike_ is 0 after
\* every step and the reset gives V_reset_; without "A" last_voltage_ is 0
\* after every step; and the plain variant ends every integrating step with
\* threshold_ = th_inf_
C22_VariantGatesBehaviour ==
  \A i \in 1..Len(log) :
    /\ model_type(P) \in {1, 2} =>
         /\ log[i].after.S.ASCurrents_ = log[i].before.S.ASCurrents_
         /\ ~log[i].refractory =>
              /\ log[i].after.S.ASCurrents_sum_ = 0
              /\ log[i].U = Scaled(log[i].v_old, log[i].before.V.P33_)
                              + Scaled(log[i].before.S.I_, log[i].before.V.P30_)
                              + log[i].syn
    /\ model_type(P) \in {1, 3} =>
         /\ log[i].after.V.last_spike_ = 0
         /\ log[i].exit => log[i].U = P.V_reset_
    /\ model_type(P) /= 5 => log[i].after.V.last_voltage_ = 0
    /\ (model_type(P) = 1 /\ ~log[i].refractory) =>
         log[i].threshold = P.th_inf_

\* the plain variant has spiked, left the refractory period through the
\* reset, and integrated again
C22_Witness ==
  /\ model_type(P) = 1
  /\ \E i \in 1..Len(log) :
       /\ log[i].exit
       /\ \E j \in 1..Len(log) : j > i /\ ~log[j].refractory /\ Spiked(log[j])

----------------------------------------------------------------------------
(* The variant tag set between runs, under SpecTag *)

\* the tags given to SetStatus: two tags of the table in other letter case,
\* and a string that is no tag
TagDicts ==
  {Def(EmptyDict, "glif_model", Str(t)) : t \in {"LIF_R", "Lif_Asc", "bogus"}}

NextTag ==
  \/ \E d \in TagDicts : SetStatus(d)
  \/ InitBuffers
  \/ Calibrate
  \/ \E n \in 1..MaxSlice : Update(n)
  \/ \E rel \in 0..MaxRel, c \in Currents : HandleCurrent(rel, c)

SpecTag == Init /\ [][NextTag]_vars

\* C23: update throws BadProperty exactly when the tag, letter case aside,
\* is no key of the table, and then it ends before its first step: P_, S_,
\* V_, B_, the slice origin and the log are what they were, so nothing was
\* consumed, recorded or sent
C23_UnknownTagFailsWholeUpdate ==
  [][ (call'.op = "update") =>
        /\ call'.threw <=> P.glif_model_ \notin {"LIF_R", "Lif_Asc", "lif"}
        /\ call'.threw => UNCHANGED <<P, S, V, B, K, log>>
        /\ ~call'.threw => Len(log') > Len(log) ]_vars

\* update has thrown on a node that has run steps before and holds a
\* current for the step it was to run
C23_Witness ==
  /\ call.op = "update"
  /\ call.threw
  /\ P.glif_model_ = "bogus"
  /\ Len(log) > 0
  /\ B.currents_[K.origin] /= 0

----------------------------------------------------------------------------
(* A run cut into calls of update of any lengths, under SpecSplit: the    *)
(* node is prepared, its currents are in the buffer, and nothing but      *)
(* update is called.                                                      *)

\* the steps for which a current event of 2000 pA is in the buffer
SplitDrives == {{0}, {0, 1}, {0, 2}, {1, 4}}

\* refractory time and resolution, in ms
SplitSetups == Setups \cup {[t_ref |-> SCALE, dt |-> SCALE]}

\* a node of variant m made in memory that held mem, prepared for a run,
\* with the currents of drive
Started(m, su, drive, mem) ==
  LET p == Prototype(m, su.t_ref)
      c == calibrate(p, State_(Parameters_, mem), Variables_(mem),
                     init_buffers_(Buffers0), su.dt)
  IN [ P |-> p, S |-> c.S, V |-> c.V,
       B |-> [c.B EXCEPT !.currents_ =
                [t \in 0..Horizon |-> IF t \in drive THEN 2000 * SCALE ELSE 0]] ]

\* the current events of drive, as the kernel records them
RECURSIVE DriveEvents(_)
DriveEvents(drive) ==
  IF drive = {} THEN <<>>
  ELSE LET t == CHOOSE x \in drive : \A y \in drive : x <= y
       IN <<[rport |-> 0, step |-> t, w |-> 2000 * SCALE]>>
            \o DriveEvents(drive \ {t})

InitSplit ==
  \E m \in Models, su \in SplitSetups, dr \in SplitDrives, mem \in Unset :
    /\ P = Started(m, su, dr, mem).P
    /\ S = Started(m, su, dr, mem).S
    /\ V = Started(m, su, dr, mem).V
    /\ B = Started(m, su, dr, mem).B
    /\ K = [Kernel0 EXCEPT !.dt = su.dt, !.run = "prepared", !.ncal = 1,
                           !.buffers_initialized = TRUE,
                           !.events = DriveEvents(dr)]
    /\ call = NoCall
    /\ log = <<>>

NextSplit == \E n \in 0..MaxSlice : Update(n)

SpecSplit == InitSplit /\ [][NextSplit]_vars

\* the run so far made by one call update( 0, 0, origin ) on the node as it
\* was prepared: with the ASCurrents_sum_ and I_syn_ it was made with, which
\* S holds until the first step and the record of the first step after it;
\* calibrate has written the doubles of V_
Whole ==
  LET s0 == IF log = <<>> THEN S ELSE log[1].before.S
      st == Started(P.glif_model_, [t_ref |-> P.t_ref_, dt |-> K.dt],
                    {K.events[i].step : i \in 1..Len(K.events)},
                    [ ASCurrents_sum_ |-> s0.ASCurrents_sum_,
                      I_syn_ |-> s0.I_syn_,
                      t_ref_remaining_ |-> 0, t_ref_total_ |-> 0,
                      last_spike_ |-> 0, last_voltage_ |-> 0,
                      P30_ |-> 0, P33_ |-> 0 ])
  IN update(P, st.S, st.V, st.B, <<>>, K.dt, 0, K.origin)

\* C24: however the steps 0 .. origin - 1 were cut into calls of update,
\* the node is as one call over all of them leaves it: the same S_, V_ and
\* B_, the same steps recorded with the same spikes and offsets, and the
\* same fatal end if the reset failed
C24_SplitRangeSameResult ==
  /\ S = Whole.S
  /\ V = Whole.V
  /\ B = Whole.B
  /\ log = Whole.log
  /\ K.aborted = Whole.aborted

\* five steps run, by calls of at most MaxSlice steps each, on a node that
\* spiked in step 1 and was refractory in the steps 2 and 3: a call started
\* while the node was refractory
C24_Witness ==
  /\ K.origin = 5
  /\ MaxSlice < 3
  /\ Len(log) = 5
  /\ Spiked(log[2])
  /\ log[3].refractory /\ ~log[3].exit
  /\ log[4].refractory /\ ~log[4].exit
  /\ log[5].exit

----------------------------------------------------------------------------
(* Connections, SetStatus, preparation, runs and spike events in any      *)
(* order the kernel allows, under SpecWire                                *)

\* the values given for tau_syn: two ports, and one
WireDicts ==
  {Def(EmptyDict, "tau_syn", Vec(<<2000, 3000>>)),
   Def(EmptyDict, "tau_syn", Vec(<<1000>>))}

NextWire ==
  \/ \E d \in WireDicts : SetStatus(d)
  \/ \E r \in 1..MaxRport : ConnectSpike(r)
  \/ InitBuffers
  \/ Calibrate
  \/ \E n \in 1..MaxSlice : Update(n)
  \/ \E rport \in 1..MaxRport : HandleSpike(rport, 0, SCALE)

SpecWire == Init /\ [][NextWire]_vars

\* C25 as stated: a spike event for a port that handles_test_event accepted
\* finds its ring buffer: handle never indexes spikes_ at or past its size
C25_AcceptedPortHasBuffer ==
  call.op = "handle" => call.ret - 1 < call.d.size

----------------------------------------------------------------------------
(* The potential set between the runs of the five variants, under        *)
(* SpecSet; the refractory period is one step long                        *)

\* the update given: a potential above the threshold
SetDicts == {Def(EmptyDict, "V_m", Num(-40000))}

NextSet ==
  \/ \E d \in SetDicts : SetStatus(d)
  \/ InitBuffers
  \/ Calibrate
  \/ \E n \in 1..MaxSlice : Update(n)
  \/ \E rel \in 0..MaxRel, c \in Currents : HandleCurrent(rel, c)

SpecSet == InitVar /\ [][NextSet]_vars

\* C26 as stated: every spike carries an offset inside its step, computed
\* without a division by zero, and a step that integrates starts with the
\* potential not above the threshold
C26_OffsetInsideStep ==
  \A i \in 1..Len(log) :
    /\ Spiked(log[i]) =>
         \A j \in 1..Len(log[i].sent) :
           /\ log[i].sent[j].offset \notin {NaN, PosInf, NegInf}
           /\ 0 <= log[i].sent[j].offset
           /\ log[i].sent[j].offset <= log[i].dt
    /\ ~log[i].refractory => log[i].v_old <= log[i].th_old

----------------------------------------------------------------------------
(* The potentials of the parameters set between the runs of the variants  *)
(* with the fixed reset, under SpecReset                                  *)

\* the updates given: a new threshold together with a new reset potential,
\* and a new resting potential
ResetDicts ==
  {Def(Def(EmptyDict, "V_th", Num(-50000)), "V_reset", Num(-75000)),
   Def(EmptyDict, "E_L", Num(-70000))}

InitReset ==
  \E m \in {"lif", "lif_asc"} :
    /\ P = Prototype(m, SCALE)
    /\ \E mem \in Unset :
         /\ S = State_(Parameters_, mem)
         /\ V = Variables_(mem)
    /\ B = Buffers0
    /\ K = Kernel0
    /\ call = NoCall
    /\ log = <<>>

NextReset ==
  \/ \E d \in ResetDicts : SetStatus(d)
  \/ InitBuffers
  \/ Calibrate
  \/ \E n \in 1..MaxSlice : Update(n)
  \/ \E rel \in 0..MaxRel, c \in Currents : HandleCurrent(rel, c)

SpecReset == InitReset /\ [][NextReset]_vars

\* C28: in the variants 1 and 3 every step by which update leaves the
\* refractory period passes the check of the reset: the potential is
\* V_reset_, the threshold is th_inf_, and the potential is not above it
C28_FixedResetNeverFails ==
  [][ \A i \in (Len(log) + 1)..Len(log') :
        log'[i].exit =>
          /\ ~log'[i].failed
          /\ log'[i].U = P.V_reset_
          /\ log'[i].threshold = P.th_inf_
          /\ log'[i].U <= log'[i].threshold ]_vars

\* a node with the fixed reset left the refractory period with a threshold
\* and a reset potential that SetStatus had changed
C28_Witness ==
  /\ P.th_inf_ /= Parameters_.th_inf_
  /\ P.V_reset_ /= Parameters_.V_reset_
  /\ call.op = "update"
  /\ log /= <<>>
  /\ log[Len(log)].exit
  /\ log[Len(log)].threshold = P.th_inf_
  /\ log[Len(log)].U = P.V_reset_

----------------------------------------------------------------------------
(* The vectors of the after-spike currents set to any length, under       *)
(* SpecVec                                                                *)

\* vectors of one and of three entries, the defaults having two
VecDicts ==
  {Def(EmptyDict, "k", Vec(<<10>>)),
   Def(EmptyDict, "asc_amps", Vec(<<-5000>>)),
   Def(EmptyDict, "r", Vec(<<500>>)),
   Def(EmptyDict, "ASCurrents", Vec(<<3000, 4000, 5000>>))}

NextVec == \E d \in Singles \cup VecDicts : SetStatus(d)

SpecVec == Init /\ [][NextVec]_vars

\* C27 as stated: asc_amps_, r_ and k_ have at least as many entries as
\* ASCurrents_, so that update indexes them in bounds
C27_ASCVectorsCoverState ==
  /\ Len(P.asc_amps_) >= Len(S.ASCurrents_)
  /\ Len(P.r_) >= Len(S.ASCurrents_)
  /\ Len(P.k_) >= Len(S.ASCurrents_)

====
